---- MODULE Spec2Model ----
(***************************************************************************)
(* Model of the submission-outcome classifiers of the JBIT end-to-end form *)
(* tester: FormValidationHelper (validateFormSubmission, getFormField-     *)
(* Values, areFieldsCleared, setupNetworkMonitoring, assertSubmission-     *)
(* Success) and the inline classifiers of the test files (smoke test,      *)
(* TC-001, TC-003, TC-SPV-001).                                            *)
(*                                                                         *)
(* The browser page is the environment: which selectors are visible, the   *)
(* current URL, whether the form is in the DOM and what its fields hold,   *)
(* and which page operations throw.  A classifier is one action that reads *)
(* the page through the page operations, in the order of the code.         *)
(*                                                                         *)
(* RecaptchaHandler (the mitigation strategies and their composite) acts   *)
(* on a browser session: the registered routes and init scripts, the       *)
(* loaded document and the requests of the page.  The steps of the test    *)
(* cases before the classification (mitigation, navigation, fill, submit)  *)
(* and FormHelper.submitForm are a third state machine.                    *)
(*                                                                         *)
(* Three more state machines cover two test cases in parallel workers,     *)
(* the page-object suite (ContactFormPage with FormHelper.clearForm and    *)
(* the looped validation tests) and the command-line scripts               *)
(* run-jbit-tests.js and scripts/check-status.js.                          *)
(***************************************************************************)
EXTENDS Naturals, Integers, Sequences, FiniteSets, TLC

VARIABLES page, faults, tracking, pc, test, opts, outcome, raised, log,
          session, lastCall, flow, cases, fields, cli

vars == <<page, faults, tracking, pc, test, opts, outcome, raised, log, session, lastCall, flow,
          cases, fields, cli>>

(***************************************************************************)
(* Bounds of the model.                                                    *)
(***************************************************************************)
\* the page can show the first MaxSel entries of each indicator list
MaxSel == 2
\* number of page operations that throw during one classification
MaxFaults == 1
\* number of network events captured before the classification
MaxLog == 1
\* command-line words given to the test runner
MaxArgs == 2
\* largest test count of a results file
MaxCount == 1
\* iterations of a looped validation test
MaxIter == 2

(***************************************************************************)
(* Indicator lists, in source order.                                       *)
(***************************************************************************)
successSelectors ==
  << "text=\"Bedankt voor je bericht\"",
     "text=\"Uw bericht is verzonden\"",
     "text=\"Thank you for your message\"",
     "text=\"Your message has been sent\"",
     "text=\"Message sent successfully\"",
     "text=\"Merci pour votre message\"",
     ".elementor-message.elementor-message-success",
     ".elementor-form-success",
     ".elementor-success-message",
     ".success-message",
     "[data-success=\"true\"]",
     ".form-success" >>

errorSelectors ==
  << "text=\"Please verify that you are human\"",
     "text=\"Your submission failed because of an error\"",
     "text=\"Er is een fout opgetreden\"",
     "text=\"Verzending mislukt\"",
     "text=\"Une erreur est survenue\"",
     ".elementor-message.elementor-message-danger",
     ".elementor-message.elementor-message-error",
     ".elementor-form-error",
     ".elementor-error-message",
     ".error-message",
     "[data-error=\"true\"]",
     ".form-error" >>

smokeSuccessMessages ==
  << "text=\"Bedankt voor je bericht\"",
     "text=\"Uw bericht is verzonden\"",
     "text=\"Thank you for your message\"",
     "text=\"Your message has been sent\"",
     "text=\"Message sent successfully\"",
     ".elementor-message-success",
     ".elementor-form-success",
     "[data-success=\"true\"]",
     "text=\"Merci pour votre message\"" >>

smokeErrorMessages ==
  << "text=\"Please verify that you are human\"",
     "text=\"Your submission failed because of an error\"",
     "text=\"Er is een fout opgetreden\"",
     "text=\"Verzending mislukt\"",
     ".elementor-message-danger",
     ".elementor-message-error",
     ".elementor-form-error",
     "[data-error=\"true\"]" >>

tc001SuccessSelectors ==
  << "text=\"Bedankt voor je bericht\"",
     "text=\"Uw bericht is verzonden\"",
     "text=\"Thank you for your message\"",
     ".elementor-message-success",
     ".elementor-form-success" >>

tc001ErrorSelectors ==
  << "text=\"Please verify that you are human\"",
     "text=\"Your submission failed because of an error\"",
     "text=\"Er is een fout opgetreden\"",
     ".elementor-message-danger",
     ".elementor-message-error" >>

spvSuccessSelectors ==
  << "text=\"Bedankt voor je bericht\"",
     "text=\"Uw bericht is verzonden\"",
     "text=\"Thank you for your message\"",
     "text=\"Your message has been sent\"",
     "text=\"Message sent successfully\"",
     ".elementor-message.elementor-message-success",
     ".elementor-form-success",
     ".success-message",
     "[data-success=\"true\"]" >>

spvErrorSelectors ==
  << "text=\"Please verify that you are human\"",
     "text=\"Your submission failed because of an error\"",
     "text=\"Er is een fout opgetreden\"",
     "text=\"Verzending mislukt\"",
     ".elementor-message.elementor-message-danger",
     ".elementor-message.elementor-message-error",
     ".elementor-form-error",
     ".error-message",
     "[data-error=\"true\"]" >>

\* TC-003 probes one comma-joined selector per kind; its alternatives:
tc003SuccessSelector == << ".elementor-message-success", "text=\"Bedankt voor je bericht\"" >>
tc003ErrorSelector == << ".elementor-message-danger", "text=\"Please verify that you are human\"" >>

(***************************************************************************)
(* The page after the submit click.                                        *)
(***************************************************************************)
Range(s) == { s[i] : i \in DOMAIN s }

Prefix(s, n) == { s[i] : i \in { j \in DOMAIN s : j <= n } }

SuccessPool == Prefix(successSelectors, MaxSel)
ErrorPool == Prefix(errorSelectors, MaxSel)

\* a URL is the sequence of its parts between slashes:
\* https://jbit.be/contact-nl/ is <<"https:", "", "jbit.be", "contact-nl", "">>
Urls == { <<"https:", "", "jbit.be", "contact-nl", "">>,
          <<"https:", "", "jbit.be", "contact", "">>,
          <<"https:", "", "jbit.be", "">> }

\* a field value is a sequence of characters
FieldValues == { <<>>, <<"x">> }
RequiredFields == << "name", "email", "message" >>
FieldOrder == << "name", "email", "phone", "message" >>
NoForm == [ present |-> FALSE ]
EmptyForm == [ present |-> TRUE, name |-> <<>>, email |-> <<>>, phone |-> <<"x">>, message |-> <<>> ]
\* the form is gone from the DOM, or holds empty and non-empty values, or
\* holds a single blank in one field
Forms == { NoForm }
         \cup [ present : {TRUE}, name : FieldValues, email : FieldValues,
                phone : { <<"x">> }, message : FieldValues ]
         \cup { [ EmptyForm EXCEPT ![RequiredFields[i]] = <<" ">> ] : i \in DOMAIN RequiredFields }

Pages == [ visible : { s \cup e : s \in SUBSET SuccessPool, e \in SUBSET ErrorPool },
           url : Urls,
           form : Forms ]

\* page operations that can throw
FaultOps ==
  { <<"waitForTimeout", "settle">> }
  \cup { <<"screenshot", c>> : c \in { "post", "final", "error" } }
  \cup { <<"isVisible", s>> : s \in SuccessPool \cup ErrorPool }
  \cup { <<"inputValue", f>> : f \in { "name", "email", "phone", "message" } }

FaultPlans == { F \in SUBSET FaultOps : Cardinality(F) <= MaxFaults }

(***************************************************************************)
(* Page operations of the browser driver, as the classifiers use them.     *)
(***************************************************************************)
\* url.includes('/seg/')
Includes(url, seg) == \E i \in DOMAIN url : i > 1 /\ i < Len(url) /\ url[i] = seg

\* locator.count() of a form-field locator
Count(pg, f) == IF pg.form.present THEN 1 ELSE 0

\* locator.inputValue() throws when the operation fails or when the locator
\* does not resolve within its timeout
InputValueThrows(pg, F, f) == <<"inputValue", f>> \in F \/ ~pg.form.present

IsWhitespace(c) == c = " "

RECURSIVE TrimStart(_)
TrimStart(v) == IF v # <<>> /\ IsWhitespace(Head(v)) THEN TrimStart(Tail(v)) ELSE v

RECURSIVE TrimEnd(_)
TrimEnd(v) ==
  IF v # <<>> /\ IsWhitespace(v[Len(v)]) THEN TrimEnd(SubSeq(v, 1, Len(v) - 1)) ELSE v

\* String.prototype.trim
Trim(v) == TrimEnd(TrimStart(v))

\* the loop `for (const selector of list) if (await isVisible) { ...; break }`
RECURSIVE ProbeFrom(_, _, _, _, _)
ProbeFrom(list, i, pg, F, done) ==
  IF i > Len(list) THEN [ kind |-> "none", sel |-> "", ops |-> done ]
  ELSE LET op == <<"isVisible", list[i]>> IN
       IF op \in F THEN [ kind |-> "threw", sel |-> list[i], ops |-> Append(done, op) ]
       ELSE IF list[i] \in pg.visible
            THEN [ kind |-> "found", sel |-> list[i], ops |-> Append(done, op) ]
            ELSE ProbeFrom(list, i + 1, pg, F, Append(done, op))

ProbeList(list, pg, F) == ProbeFrom(list, 1, pg, F, <<>>)

(***************************************************************************)
(* FormValidationHelper                                                    *)
(***************************************************************************)
Null == <<>>

Returned(r, ops) == [ kind |-> "returned", results |-> r, error |-> Null, ops |-> ops ]
Rejected(r, op, ops) == [ kind |-> "rejected", results |-> r, error |-> op, ops |-> ops ]

\* getFormFieldValues: the reads run in one try block, so the first read
\* that throws ends the reading and the values read so far are returned
RECURSIVE ReadFields(_, _, _, _, _)
ReadFields(i, pg, F, values, ops) ==
  IF i > Len(FieldOrder) THEN [ values |-> values, ops |-> ops ]
  ELSE LET f == FieldOrder[i]
           ops1 == Append(ops, <<"count", f>>)
           ops2 == Append(ops1, <<"inputValue", f>>)
       IN IF Count(pg, f) > 0
          THEN IF InputValueThrows(pg, F, f)
               THEN [ values |-> values, ops |-> ops2 ]
               ELSE ReadFields(i + 1, pg, F, values @@ (f :> pg.form[f]), ops2)
          ELSE ReadFields(i + 1, pg, F, values, ops1)

getFormFieldValues(pg, F) == ReadFields(1, pg, F, <<>>, <<>>)

\* !fieldValues[field] || fieldValues[field].trim() === ''
FieldIsCleared(fieldValues, f) ==
  \/ f \notin DOMAIN fieldValues
  \/ fieldValues[f] = <<>>
  \/ Trim(fieldValues[f]) = <<>>

areFieldsCleared(fieldValues) ==
  \A i \in DOMAIN RequiredFields : FieldIsCleared(fieldValues, RequiredFields[i])

InitialResults ==
  [ success |-> FALSE, hasSuccessMessage |-> FALSE, hasErrorMessage |-> FALSE,
    fieldsCleared |-> FALSE, urlChanged |-> FALSE, networkRequests |-> 0,
    errorDetails |-> Null, successDetails |-> Null ]

\* `Validation error: ${error.message}`
ValidationError(op) == <<"Validation error", op[1], op[2]>>

\* the catch block of validateFormSubmission
CatchBlock(r, op, F, o, ops) ==
  LET r1 == [ r EXCEPT !.success = FALSE, !.errorDetails = ValidationError(op) ]
      shot == <<"screenshot", "error">>
  IN IF o.takeScreenshots
     THEN IF shot \in F THEN Rejected(r1, shot, Append(ops, shot))
                        ELSE Returned(r1, Append(ops, shot))
     ELSE Returned(r1, ops)

\* the verdict without the primary failure condition
DetermineSuccessIgnoringError(r, F, o, ops) ==
  LET successCount == Cardinality({ k \in { "hasSuccessMessage", "fieldsCleared", "urlChanged" } : r[k] })
      r1 == [ r EXCEPT !.success = successCount > 0 ]
      shot == <<"screenshot", "final">>
  IN IF o.takeScreenshots
     THEN IF shot \in F THEN CatchBlock(r1, shot, F, o, Append(ops, shot))
                        ELSE Returned(r1, Append(ops, shot))
     ELSE Returned(r1, ops)

\* step 5 of the try block and the final screenshot
DetermineSuccess(r, F, o, ops) ==
  LET successCount == Cardinality({ k \in { "hasSuccessMessage", "fieldsCleared", "urlChanged" } : r[k] })
      r1 == IF r.hasErrorMessage THEN [ r EXCEPT !.success = FALSE ]
                                 ELSE [ r EXCEPT !.success = successCount > 0 ]
      shot == <<"screenshot", "final">>
  IN IF o.takeScreenshots
     THEN IF shot \in F THEN CatchBlock(r1, shot, F, o, Append(ops, shot))
                        ELSE Returned(r1, Append(ops, shot))
     ELSE Returned(r1, ops)

\* steps 3 and 4 of the try block
CheckFieldsAndUrl(r, pg, F, o, ops) ==
  LET fv == getFormFieldValues(pg, F)
      r1 == [ r EXCEPT !.fieldsCleared = areFieldsCleared(fv.values) ]
      r2 == [ r1 EXCEPT !.urlChanged = ~Includes(pg.url, "contact-nl") /\ ~Includes(pg.url, "contact") ]
  IN DetermineSuccess(r2, F, o, Append(ops \o fv.ops, <<"url", "">>))

\* step 2 of the try block, over the error list `err`
CheckErrorMessages(err, r, pg, F, o, ops) ==
  LET e == ProbeList(err, pg, F)
      r1 == IF e.kind = "found"
            THEN [ r EXCEPT !.hasErrorMessage = TRUE, !.errorDetails = <<e.sel>> ]
            ELSE r
  IN IF e.kind = "threw"
     THEN CatchBlock(r, <<"isVisible", e.sel>>, F, o, ops \o e.ops)
     ELSE CheckFieldsAndUrl(r1, pg, F, o, ops \o e.ops)

\* step 1 of the try block, over the success list `succ`
CheckSuccessMessages(succ, err, r, pg, F, o, ops) ==
  LET s == ProbeList(succ, pg, F)
      r1 == IF s.kind = "found"
            THEN [ r EXCEPT !.hasSuccessMessage = TRUE, !.successDetails = <<s.sel>> ]
            ELSE r
  IN IF s.kind = "threw"
     THEN CatchBlock(r, <<"isVisible", s.sel>>, F, o, ops \o s.ops)
     ELSE CheckErrorMessages(err, r1, pg, F, o, ops \o s.ops)

\* the body of validateFormSubmission with its two indicator lists as
\* parameters; t is the traffic captured on the page so far, which the
\* method does not read
ValidateWith(succ, err, pg, F, o, t) ==
  LET wait == <<"waitForTimeout", "settle">>
      shot == <<"screenshot", "post">>
  IN IF wait \in F THEN Rejected(InitialResults, wait, <<wait>>)
     ELSE IF o.takeScreenshots
          THEN IF shot \in F THEN Rejected(InitialResults, shot, <<wait, shot>>)
                             ELSE CheckSuccessMessages(succ, err, InitialResults, pg, F, o, <<wait, shot>>)
          ELSE CheckSuccessMessages(succ, err, InitialResults, pg, F, o, <<wait>>)

\* a stricter policy: no Success without a captured 2xx response
ValidateRequiring2xx(pg, F, o, t) ==
  LET v == ValidateWith(successSelectors, errorSelectors, pg, F, o, t)
      seen2xx == \E i \in DOMAIN t.responses :
                   t.responses[i].status >= 200 /\ t.responses[i].status < 300
  IN IF seen2xx THEN v ELSE [ v EXCEPT !.results.success = FALSE ]

validateFormSubmission(pg, F, o, t) ==
  ValidateWith(successSelectors, errorSelectors, pg, F, o, t)

\* errors a test can raise
NoError == [ name |-> "none", detail |-> Null ]
Error(n, d) == [ name |-> n, detail |-> d ]

assertSubmissionSuccess(validationResults) ==
  IF validationResults.hasErrorMessage
  THEN Error("FORM SUBMISSION FAILED", validationResults.errorDetails)
  ELSE IF ~validationResults.success
       THEN Error("FORM SUBMISSION STATUS UNCLEAR", Null)
       ELSE NoError

(***************************************************************************)
(* Inline classifiers of the test files.  Each operator is the part of the *)
(* test after the submit click; it yields the error the test raises        *)
(* (NoError when the test passes), the evidence it computed and the page   *)
(* operations it performed.                                                *)
(***************************************************************************)
\* an error thrown by a page operation
PageError(op) == Error("page operation failed", op)

NoEvidence ==
  [ hasSuccessMessage |-> FALSE, hasErrorMessage |-> FALSE, fieldsCleared |-> FALSE,
    urlChanged |-> FALSE, errorFound |-> Null ]

TestEnd(err, ev, ops) == [ raised |-> err, evidence |-> ev, ops |-> ops ]

\* performs the operations of `todo` in order until one throws
RECURSIVE Perform(_, _, _)
Perform(todo, F, done) ==
  IF todo = <<>> THEN [ threw |-> FALSE, op |-> Null, ops |-> done ]
  ELSE IF Head(todo) \in F
       THEN [ threw |-> TRUE, op |-> Head(todo), ops |-> Append(done, Head(todo)) ]
       ELSE Perform(Tail(todo), F, Append(done, Head(todo)))

\* reads the given fields with inputValue() until one read throws
RECURSIVE ReadInline(_, _, _, _, _)
ReadInline(fs, pg, F, values, ops) ==
  IF fs = <<>> THEN [ threw |-> FALSE, op |-> Null, values |-> values, ops |-> ops ]
  ELSE LET op == <<"inputValue", Head(fs)>> IN
       IF InputValueThrows(pg, F, Head(fs))
       THEN [ threw |-> TRUE, op |-> op, values |-> values, ops |-> Append(ops, op) ]
       ELSE ReadInline(Tail(fs), pg, F, values @@ (Head(fs) :> pg.form[Head(fs)]), Append(ops, op))

\* !value of a string that was read
IsEmpty(v) == v = <<>>

\* expect(currentUrl).toMatch(/jbit\.be/) and expect(currentUrl).toContain('jbit.be')
MentionsSite(url) == \E i \in DOMAIN url : url[i] = "jbit.be"

\* ---- simple smoke test -------------------------------------------------
\* catch block: failure screenshot, URL expectations, rethrow
SmokeCatch(err, ev, pg, F, ops) ==
  LET shot == <<"screenshot", "error">>
      ops1 == Append(ops, shot)
  IN IF shot \in F THEN TestEnd(PageError(shot), ev, ops1)
     ELSE IF ~MentionsSite(pg.url) THEN TestEnd(Error("expect failed", Null), ev, Append(ops1, <<"url", "">>))
     ELSE TestEnd(err, ev, Append(ops1, <<"url", "">>))

SmokeVerdict(ev, pg, F, ops) ==
  LET submissionSuccessful ==
        ev.hasSuccessMessage \/ (ev.fieldsCleared /\ ~ev.hasErrorMessage) \/ ev.urlChanged
  IN IF ev.hasErrorMessage
     THEN SmokeCatch(Error("Form submission failed - Error message detected", ev.errorFound), ev, pg, F, ops)
     ELSE IF ~submissionSuccessful
          THEN SmokeCatch(Error("Form submission unclear", Null), ev, pg, F, ops)
          ELSE IF ~MentionsSite(pg.url)
               THEN SmokeCatch(Error("expect failed", Null), ev, pg, F, ops)
               ELSE TestEnd(NoError, ev, ops)

SmokeFields(ev, pg, F, ops) ==
  LET stillOnContactForm == Includes(pg.url, "contact-nl")
      rd == ReadInline(RequiredFields, pg, F, <<>>, <<>>)
      fieldsCleared ==
        IF stillOnContactForm /\ ~rd.threw
        THEN IsEmpty(rd.values["name"]) /\ IsEmpty(rd.values["email"]) /\ IsEmpty(rd.values["message"])
        ELSE FALSE
      ops1 == Append(ops, <<"url", "">>) \o (IF stillOnContactForm THEN rd.ops ELSE <<>>)
      ev1 == [ ev EXCEPT !.fieldsCleared = fieldsCleared,
                         !.urlChanged = ~Includes(pg.url, "contact-nl") ]
  IN SmokeVerdict(ev1, pg, F, ops1)

SmokeProbes(pg, F, ops) ==
  LET s == ProbeList(smokeSuccessMessages, pg, F)
      e == ProbeList(smokeErrorMessages, pg, F)
      ev1 == [ NoEvidence EXCEPT !.hasSuccessMessage = s.kind = "found" ]
      ev2 == IF e.kind = "found"
             THEN [ ev1 EXCEPT !.hasErrorMessage = TRUE, !.errorFound = <<e.sel>> ]
             ELSE ev1
  IN IF s.kind = "threw"
     THEN SmokeCatch(PageError(<<"isVisible", s.sel>>), NoEvidence, pg, F, ops \o s.ops)
     ELSE IF e.kind = "threw"
          THEN SmokeCatch(PageError(<<"isVisible", e.sel>>), ev1, pg, F, ops \o s.ops \o e.ops)
          ELSE SmokeFields(ev2, pg, F, ops \o s.ops \o e.ops)

SmokeTest(pg, F) ==
  LET w == Perform(<< <<"waitForTimeout", "settle">>, <<"screenshot", "post">>,
                      <<"waitForTimeout", "settle">>, <<"screenshot", "post">> >>, F, <<>>)
  IN IF w.threw THEN SmokeCatch(PageError(w.op), NoEvidence, pg, F, w.ops)
     ELSE SmokeProbes(pg, F, w.ops)

\* ---- TC-001 --------------------------------------------------------------
TC001Verdict(ev, pg, ops) ==
  LET actuallySuccessful ==
        ev.hasSuccessMessage \/ (ev.fieldsCleared /\ ~ev.hasErrorMessage) \/ ev.urlChanged
  IN IF ev.hasErrorMessage
     THEN TestEnd(Error("Form submission failed - Server processing error detected", ev.errorFound), ev, ops)
     ELSE IF ~actuallySuccessful
          THEN TestEnd(Error("Form submission status unclear", Null), ev, ops)
          ELSE IF ~MentionsSite(pg.url) THEN TestEnd(Error("expect failed", Null), ev, ops)
               ELSE TestEnd(NoError, ev, ops)

TC001Fields(ev, pg, F, ops) ==
  LET rd == ReadInline(RequiredFields, pg, F, <<>>, <<>>)
      ev1 == [ ev EXCEPT !.fieldsCleared =
                           IsEmpty(rd.values["name"]) /\ IsEmpty(rd.values["email"])
                           /\ IsEmpty(rd.values["message"]),
                         !.urlChanged = ~Includes(pg.url, "contact-nl") ]
  IN IF rd.threw THEN TestEnd(PageError(rd.op), ev, ops \o rd.ops)
     ELSE TC001Verdict(ev1, pg, Append(ops \o rd.ops, <<"url", "">>))

TC001(pg, F) ==
  LET wait == <<"waitForTimeout", "settle">>
      s == ProbeList(tc001SuccessSelectors, pg, F)
      e == ProbeList(tc001ErrorSelectors, pg, F)
      ev1 == [ NoEvidence EXCEPT !.hasSuccessMessage = s.kind = "found" ]
      ev2 == IF e.kind = "found"
             THEN [ ev1 EXCEPT !.hasErrorMessage = TRUE, !.errorFound = <<e.sel>> ]
             ELSE ev1
  IN IF wait \in F THEN TestEnd(PageError(wait), NoEvidence, <<wait>>)
     ELSE IF s.kind = "threw"
          THEN TestEnd(PageError(<<"isVisible", s.sel>>), NoEvidence, <<wait>> \o s.ops)
          ELSE IF e.kind = "threw"
               THEN TestEnd(PageError(<<"isVisible", e.sel>>), ev1, <<wait>> \o s.ops \o e.ops)
               ELSE TC001Fields(ev2, pg, F, <<wait>> \o s.ops \o e.ops)

\* ---- TC-003 --------------------------------------------------------------
\* isVisible() of a comma-joined selector: some alternative is visible
AnyVisible(alternatives, pg) == \E i \in DOMAIN alternatives : alternatives[i] \in pg.visible

TC003(pg, F) ==
  LET wait == <<"waitForTimeout", "settle">>
      successVisible == AnyVisible(tc003SuccessSelector, pg)
      errorVisible == AnyVisible(tc003ErrorSelector, pg)
      rd == ReadInline(<<"name", "email">>, pg, F, <<>>, <<>>)
      fieldsReset == IsEmpty(rd.values["name"]) /\ IsEmpty(rd.values["email"])
      redirected == ~Includes(pg.url, "contact-nl")
      ev == [ hasSuccessMessage |-> successVisible, hasErrorMessage |-> errorVisible,
              fieldsCleared |-> fieldsReset, urlChanged |-> redirected, errorFound |-> Null ]
      submissionSuccessful == successVisible \/ (fieldsReset /\ ~errorVisible) \/ redirected
      ops1 == << wait, <<"isVisible", "tc003-success">>, <<"isVisible", "tc003-error">> >> \o rd.ops
      ops2 == Append(ops1, <<"url", "">>)
  IN IF wait \in F THEN TestEnd(PageError(wait), NoEvidence, <<wait>>)
     ELSE IF rd.threw
          THEN TestEnd(PageError(rd.op),
                       [ NoEvidence EXCEPT !.hasSuccessMessage = successVisible,
                                           !.hasErrorMessage = errorVisible ], ops1)
          ELSE IF errorVisible
               THEN TestEnd(Error("Comprehensive data test failed - Server processing error detected", Null), ev, ops2)
               ELSE IF ~submissionSuccessful
                    THEN TestEnd(Error("Comprehensive data test unclear", Null), ev, ops2)
                    ELSE IF ~MentionsSite(pg.url) THEN TestEnd(Error("expect failed", Null), ev, ops2)
                         ELSE TestEnd(NoError, ev, ops2)

\* ---- TC-SPV-001 ----------------------------------------------------------
\* catch block: final-state screenshot, rethrow
SPVCatch(err, ev, F, ops) ==
  LET shot == <<"screenshot", "error">>
  IN IF shot \in F THEN TestEnd(PageError(shot), ev, Append(ops, shot))
     ELSE TestEnd(err, ev, Append(ops, shot))

SPVVerdict(ev, pg, F, ops) ==
  LET successCount == Cardinality({ k \in { "hasSuccessMessage", "fieldsCleared", "urlChanged" } : ev[k] })
      shot == <<"screenshot", "final">>
      ops1 == Append(ops, shot)
  IN IF shot \in F THEN SPVCatch(PageError(shot), ev, F, ops1)
     ELSE IF ev.hasErrorMessage
          THEN SPVCatch(Error("FORM SUBMISSION FAILED", ev.errorFound), ev, F, ops1)
          ELSE IF successCount = 0
               THEN SPVCatch(Error("FORM SUBMISSION STATUS UNCLEAR", Null), ev, F, ops1)
               ELSE IF ~MentionsSite(pg.url) THEN SPVCatch(Error("expect failed", Null), ev, F, ops1)
                    ELSE TestEnd(NoError, ev, ops1)

SPVFields(ev, pg, F, ops) ==
  LET rd == ReadInline(RequiredFields, pg, F, <<>>, <<>>)
      ev1 == [ ev EXCEPT !.fieldsCleared =
                           IsEmpty(rd.values["name"]) /\ IsEmpty(rd.values["email"])
                           /\ IsEmpty(rd.values["message"]),
                         !.urlChanged = ~Includes(pg.url, "contact-nl") ]
  IN IF rd.threw THEN SPVCatch(PageError(rd.op), ev, F, ops \o rd.ops)
     ELSE SPVVerdict(ev1, pg, F, Append(ops \o rd.ops, <<"url", "">>))

TCSPV001(pg, F) ==
  LET w == Perform(<< <<"waitForTimeout", "settle">>, <<"screenshot", "post">> >>, F, <<>>)
      s == ProbeList(spvSuccessSelectors, pg, F)
      e == ProbeList(spvErrorSelectors, pg, F)
      ev1 == [ NoEvidence EXCEPT !.hasSuccessMessage = s.kind = "found" ]
      ev2 == IF e.kind = "found"
             THEN [ ev1 EXCEPT !.hasErrorMessage = TRUE, !.errorFound = <<e.sel>> ]
             ELSE ev1
  IN IF w.threw THEN SPVCatch(PageError(w.op), NoEvidence, F, w.ops)
     ELSE IF s.kind = "threw"
          THEN SPVCatch(PageError(<<"isVisible", s.sel>>), NoEvidence, F, w.ops \o s.ops)
          ELSE IF e.kind = "threw"
               THEN SPVCatch(PageError(<<"isVisible", e.sel>>), ev1, F, w.ops \o s.ops \o e.ops)
               ELSE SPVFields(ev2, pg, F, w.ops \o s.ops \o e.ops)

(***************************************************************************)
(* setupNetworkMonitoring: the 'request' and 'response' listeners.         *)
(***************************************************************************)
\* a network URL, with the allow-list fragments it contains
NetUrls ==
  { [ text |-> "https://jbit.be/wp-admin/admin-ajax.php", has |-> { "wp-admin/admin-ajax.php" } ],
    [ text |-> "https://jbit.be/wp-json/form", has |-> {} ] }
Methods == { "GET", "POST" }

NoTracking == [ requests |-> <<>>, responses |-> <<>> ]

RequestCaptured(u, m) ==
  \/ "wp-admin/admin-ajax.php" \in u.has
  \/ "elementor" \in u.has
  \/ "contact" \in u.has
  \/ m = "POST"

ResponseCaptured(u) ==
  \/ "wp-admin/admin-ajax.php" \in u.has
  \/ "elementor" \in u.has
  \/ "contact" \in u.has

TrackedEvents(t) == Len(t.requests) + Len(t.responses)

(***************************************************************************)
(* RecaptchaHandler: the mitigation strategies and the browser session     *)
(* they configure.                                                         *)
(***************************************************************************)
\* handler calls made on one session
MaxCalls == 2
\* page loads of one session
MaxLoads == 1

strategies ==
  [ DISABLE_SCRIPTS |-> "disable_scripts",
    MOCK_RESPONSE |-> "mock_response",
    INTERCEPT_NETWORK |-> "intercept_network",
    ENVIRONMENT_BYPASS |-> "environment_bypass",
    DIRECT_API |-> "direct_api" ]

\* the values a caller passes: a known strategy, no argument, or another string
StrategyArgs ==
  { strategies.DISABLE_SCRIPTS, strategies.MOCK_RESPONSE, strategies.INTERCEPT_NETWORK,
    strategies.ENVIRONMENT_BYPASS, strategies.DIRECT_API, "undefined", "unknown_strategy" }

\* process.env.NODE_ENV and process.env.TESTING
Environments == [ NODE_ENV : { "test", "production" }, TESTING : { "true", "undefined" } ]

\* page.url(), with the substrings the handler looks for
BlankUrl == [ text |-> "about:blank", has |-> {} ]
FormUrl == [ text |-> "https://jbit.be/contact-nl/", has |-> {} ]
PageUrls ==
  { BlankUrl,
    FormUrl,
    [ text |-> "https://staging.jbit.be/contact-nl/", has |-> { "staging" } ] }

\* the calls on the page that can throw (page closed, context destroyed)
PageCalls == { "route", "addInitScript", "evaluate" }
CallFaults == SUBSET PageCalls

\* A request URL is the sequence of its segments between slashes and a
\* segment the sequence of its tokens; a glob is a sequence of segment
\* patterns, <<"**">> for any run of segments and "*" for any run of tokens
\* inside one segment.
GlobRecaptcha == << <<"**">>, <<"*", "recaptcha", "*">> >>
GlobGstatic == << <<"**">>, <<"*", "gstatic.com">>, <<"recaptcha", "*">> >>
GlobGoogle == << <<"**">>, <<"*", "google.com">>, <<"recaptcha", "*">> >>
GlobSiteverify == << <<"**">>, <<"recaptcha">>, <<"api">>, <<"siteverify", "*">> >>
GlobReload == << <<"**">>, <<"recaptcha">>, <<"api2">>, <<"reload", "*">> >>
GlobScript == << <<"**">>, <<"recaptcha">>, <<"releases">>, <<"*">>, <<"recaptcha", "__", "*", ".js">> >>

\* https://www.google.com/recaptcha/api/siteverify
SiteverifyUrl ==
  << <<"https:">>, <<>>, <<"www.", "google.com">>, <<"recaptcha">>, <<"api">>, <<"siteverify">> >>
\* https://www.google.com/recaptcha/api/siteverify?response=mock_recaptcha_token_for_testing
SiteverifyTokenUrl ==
  << <<"https:">>, <<>>, <<"www.", "google.com">>, <<"recaptcha">>, <<"api">>,
     <<"siteverify", "?response=mock_", "recaptcha", "_token_for_testing">> >>
\* https://www.gstatic.com/recaptcha/releases/v1/recaptcha__en.js
ReleaseScriptUrl ==
  << <<"https:">>, <<>>, <<"www.", "gstatic.com">>, <<"recaptcha">>, <<"releases">>, <<"v1">>,
     <<"recaptcha", "__", "en", ".js">> >>
\* https://www.google.com/recaptcha/api.js
ApiScriptUrl ==
  << <<"https:">>, <<>>, <<"www.", "google.com">>, <<"recaptcha">>, <<"api.js">> >>
RequestUrls == { SiteverifyUrl, SiteverifyTokenUrl, ReleaseScriptUrl, ApiScriptUrl }

RECURSIVE MatchSegment(_, _)
MatchSegment(pat, seg) ==
  IF pat = <<>> THEN seg = <<>>
  ELSE IF Head(pat) = "*"
       THEN \E k \in 0..Len(seg) : MatchSegment(Tail(pat), SubSeq(seg, k + 1, Len(seg)))
       ELSE seg # <<>> /\ Head(seg) = Head(pat) /\ MatchSegment(Tail(pat), Tail(seg))

RECURSIVE MatchGlob(_, _)
MatchGlob(glob, url) ==
  IF glob = <<>> THEN url = <<>>
  ELSE IF Head(glob) = <<"**">>
       THEN \E k \in 0..Len(url) : MatchGlob(Tail(glob), SubSeq(url, k + 1, Len(url)))
       ELSE url # <<>> /\ MatchSegment(Head(glob), Head(url)) /\ MatchGlob(Tail(glob), Tail(url))

\* what a route handler does with a request
Abort == [ kind |-> "aborted", status |-> 0, contentType |-> "", body |-> "" ]
Continue == [ kind |-> "network", status |-> 0, contentType |-> "", body |-> "" ]
Fulfill(contentType, body) ==
  [ kind |-> "fulfilled", status |-> 200, contentType |-> contentType, body |-> body ]
VerifyResponse == Fulfill("application/json", "{success: true}")
ReloadResponse == Fulfill("text/html", "mock_recaptcha_response_for_testing")
ScriptResponse == Fulfill("application/javascript", "window.grecaptcha = {...}")

\* the stand-in client objects the handler defines: "mock" is the one of the
\* init script, "script_mock" the one the fulfilled release script assigns
grecaptchaMocks ==
  [ mock |-> [ methods |-> {"ready", "execute", "render", "getResponse", "reset"},
               execute |-> "mock_recaptcha_token_for_testing",
               getResponse |-> "mock_recaptcha_response_for_testing" ],
    script_mock |-> [ methods |-> {"ready", "execute", "render", "getResponse"},
                      execute |-> "mock_token_for_testing",
                      getResponse |-> "mock_response_for_testing" ] ]

\* the matching route registered last handles the request
RECURSIVE RouteFrom(_, _, _)
RouteFrom(routes, i, url) ==
  IF i = 0 THEN Continue
  ELSE IF MatchGlob(routes[i].glob, url) THEN routes[i].handler
       ELSE RouteFrom(routes, i - 1, url)

RouteRequest(s, url) == RouteFrom(s.routes, Len(s.routes), url)

\* the document of the page
BlankDocument ==
  [ url |-> BlankUrl, forms |-> 0, phase |-> "ready", after |-> {},
    grecaptcha |-> "undefined", sawUndefined |-> FALSE,
    testMode |-> FALSE, skipRecaptcha |-> FALSE, listeners |-> 0, testModeFields |-> 0,
    widgets |-> FALSE, wrappers |-> 0, nativeSubmits |-> 0, bypassLogs |-> 0 ]

NoRequest == [ url |-> <<>>, after |-> {}, outcome |-> Continue ]

NewSession(env, F) ==
  [ env |-> env, pfaults |-> F, routes |-> <<>>, initScripts |-> <<>>, applied |-> {},
    loads |-> 0, doc |-> BlankDocument, request |-> NoRequest ]

\* page.route(glob, handler), page.addInitScript(script)
route(s, glob, handler) ==
  [ s EXCEPT !.routes = Append(@, [ glob |-> glob, handler |-> handler ]) ]
addInitScript(s, script) == [ s EXCEPT !.initScripts = Append(@, script) ]

Resolved(v, s) == [ kind |-> "resolved", value |-> v, s |-> s ]
Thrown(s) == [ kind |-> "rejected", value |-> FALSE, s |-> s ]

disableRecaptchaScripts(s) ==
  IF "route" \in s.pfaults THEN Thrown(s)
  ELSE Resolved(TRUE, route(route(route(s, GlobRecaptcha, Abort), GlobGstatic, Abort),
                            GlobGoogle, Abort))

\* the post-load variant of the mock: page.evaluate on the current document
mockByEvaluate(s) ==
  IF "evaluate" \in s.pfaults THEN Thrown(s)
  ELSE Resolved(TRUE, [ s EXCEPT !.doc.grecaptcha = "mock" ])

mockRecaptchaResponse(s) ==
  IF "addInitScript" \in s.pfaults THEN Thrown(s)
  ELSE Resolved(TRUE, addInitScript(s, "mock"))

interceptRecaptchaRequests(s) ==
  IF "route" \in s.pfaults THEN Thrown(s)
  ELSE Resolved(TRUE, route(route(route(s, GlobSiteverify, VerifyResponse),
                                  GlobReload, ReloadResponse),
                            GlobScript, ScriptResponse))

environmentBypass(s) ==
  LET isTestEnvironment == \/ s.env.NODE_ENV = "test"
                           \/ s.env.TESTING = "true"
                           \/ "test" \in s.doc.url.has
                           \/ "staging" \in s.doc.url.has
  IN IF isTestEnvironment
     THEN IF "addInitScript" \in s.pfaults THEN Thrown(s)
          ELSE Resolved(TRUE, addInitScript(s, "flags"))
     ELSE Resolved(FALSE, s)

\* the evaluate callback: remove the widgets and wrap form.submit of each form
directApiSubmission(s) ==
  IF "evaluate" \in s.pfaults THEN Thrown(s)
  ELSE Resolved(TRUE, [ s EXCEPT !.doc.widgets = FALSE,
                                 !.doc.wrappers = IF s.doc.forms > 0 THEN @ + 1 ELSE @ ])

\* the switch of handleRecaptcha
Dispatch(s, arg) ==
  LET strategy == IF arg = "undefined" THEN strategies.INTERCEPT_NETWORK ELSE arg
  IN CASE strategy = strategies.DISABLE_SCRIPTS -> disableRecaptchaScripts(s)
       [] strategy = strategies.MOCK_RESPONSE -> mockRecaptchaResponse(s)
       [] strategy = strategies.INTERCEPT_NETWORK -> interceptRecaptchaRequests(s)
       [] strategy = strategies.ENVIRONMENT_BYPASS -> environmentBypass(s)
       [] strategy = strategies.DIRECT_API -> directApiSubmission(s)
       [] OTHER -> interceptRecaptchaRequests(s)

\* handleRecaptcha without its try/catch
handleRecaptchaUncaught(s, arg) == Dispatch(s, arg)

handleRecaptcha(s, arg) ==
  LET r == Dispatch(s, arg)
  IN IF r.kind = "rejected" THEN Resolved(FALSE, r.s) ELSE r

\* the strategies of the composite in another order
compositeStrategiesReordered ==
  << strategies.MOCK_RESPONSE, strategies.INTERCEPT_NETWORK,
     strategies.DISABLE_SCRIPTS, strategies.DIRECT_API >>

compositeStrategies ==
  << strategies.INTERCEPT_NETWORK, strategies.MOCK_RESPONSE,
     strategies.DISABLE_SCRIPTS, strategies.DIRECT_API >>

\* one iteration of the composite: what handleRecaptcha returned, and whether
\* a page call of the strategy threw
Attempt(strategy, s, r) ==
  [ strategy |-> strategy, kind |-> r.kind, value |-> r.value,
    threw |-> Dispatch(s, strategy).kind = "rejected" ]

RECURSIVE TryStrategies(_, _, _, _)
TryStrategies(list, i, s, attempts) ==
  IF i > Len(list)
  THEN [ kind |-> "resolved", value |-> FALSE, s |-> s, attempts |-> attempts ]
  ELSE LET r == handleRecaptcha(s, list[i])
           done == Append(attempts, Attempt(list[i], s, r))
       IN IF r.kind = "resolved" /\ r.value
          THEN [ kind |-> "resolved", value |-> TRUE, s |-> r.s, attempts |-> done ]
          ELSE TryStrategies(list, i + 1, r.s, done)

applyMultipleStrategies(s) == TryStrategies(compositeStrategies, 1, s, <<>>)

\* page.goto(url): a new document; the init scripts run in it, in the order
\* of their registration, before any script of the page
RECURSIVE RunInitScripts(_, _, _)
RunInitScripts(scripts, i, doc) ==
  IF i > Len(scripts) THEN doc
  ELSE RunInitScripts(scripts, i + 1,
         IF scripts[i] = "mock" THEN [ doc EXCEPT !.grecaptcha = "mock" ]
         ELSE [ doc EXCEPT !.testMode = TRUE, !.skipRecaptcha = TRUE, !.listeners = @ + 1 ])

goto(s, url) ==
  [ s EXCEPT !.loads = @ + 1,
             !.doc = RunInitScripts(s.initScripts, 1,
                       [ BlankDocument EXCEPT !.url = url, !.forms = 1, !.widgets = TRUE,
                                              !.phase = "scripts", !.after = s.applied ]) ]

\* the page's own challenge script: it installs the real widget unless a
\* client object is already defined
pageScript(doc) ==
  [ doc EXCEPT !.phase = "parsed",
               !.sawUndefined = (doc.grecaptcha = "undefined"),
               !.grecaptcha = IF doc.grecaptcha = "undefined" THEN "real" ELSE @ ]

\* DOMContentLoaded: every listener of the flag injection appends one hidden
\* test_mode input to every form
domContentLoaded(doc) ==
  [ doc EXCEPT !.phase = "ready", !.testModeFields = doc.forms * doc.listeners ]

\* form.submit(): every wrapper logs and calls the function it wrapped
formSubmit(doc) ==
  [ doc EXCEPT !.nativeSubmits = @ + 1, !.bypassLogs = @ + doc.wrappers ]

NoSession == NewSession([ NODE_ENV |-> "production", TESTING |-> "undefined" ], {})

NoCall ==
  [ op |-> "none", arg |-> "", kind |-> "none", value |-> FALSE, threw |-> FALSE,
    attempts |-> <<>>, n |-> 0 ]

(***************************************************************************)
(* FormHelper.submitForm and the steps of the test cases before the        *)
(* classification.                                                         *)
(***************************************************************************)
\* [...successSelectors, ...errorSelectors, ...fieldErrorSelectors]
responseSelectors ==
  << ".elementor-message-success", ".success-message", ".form-success", ".alert-success",
     "[class*=\"success\"]",
     ".elementor-message-danger", ".error-message", ".form-error", ".alert-danger",
     ".elementor-field-error", "[class*=\"error\"]",
     ".elementor-field-error", ".field-error", ".error", ".invalid-feedback",
     "[aria-invalid=\"true\"]" >>

\* the page after the submit click as FormHelper probes it
ResponsePages ==
  [ visible : SUBSET Prefix(responseSelectors, MaxSel),
    url : { <<"https:", "", "jbit.be", "contact-nl", "">> },
    form : { NoForm, EmptyForm } ]

\* isElementVisible(selector, 500): waitForSelector resolves at once when the
\* element is visible and throws after the 500 ms otherwise; the catch turns
\* the throw into false
RECURSIVE ProbeResponse(_, _, _, _, _)
ProbeResponse(list, i, pg, elapsed, done) ==
  IF i > Len(list) THEN [ found |-> FALSE, elapsed |-> elapsed, ops |-> done ]
  ELSE LET ops == Append(done, <<"isElementVisible", list[i]>>) IN
       IF list[i] \in pg.visible THEN [ found |-> TRUE, elapsed |-> elapsed, ops |-> ops ]
       ELSE ProbeResponse(list, i + 1, pg, elapsed + 500, ops)

\* the loop with a plain return in place of the throw after it
RECURSIVE ResponseLoopFallingThrough(_, _, _, _, _)
ResponseLoopFallingThrough(pg, F, timeout, elapsed, done) ==
  IF ~(elapsed < timeout)
  THEN [ threw |-> FALSE, error |-> NoError, ops |-> done ]
  ELSE LET p == ProbeResponse(responseSelectors, 1, pg, elapsed, done)
           formOps == Append(p.ops, <<"isElementVisible", "form">>)
           poll == <<"waitForTimeout", "poll">>
       IN IF p.found THEN [ threw |-> FALSE, error |-> NoError, ops |-> p.ops ]
          ELSE IF ~pg.form.present
               THEN [ threw |-> FALSE, error |-> NoError, ops |-> formOps ]
               ELSE ResponseLoopFallingThrough(pg, F, timeout, p.elapsed + 500,
                                               Append(formOps, poll))

\* while (Date.now() - startTime < timeout) { probes; form probe; wait 500 }
RECURSIVE ResponseLoop(_, _, _, _, _)
ResponseLoop(pg, F, timeout, elapsed, done) ==
  IF ~(elapsed < timeout)
  THEN [ threw |-> TRUE, error |-> Error("Form submission response timeout", Null), ops |-> done ]
  ELSE LET p == ProbeResponse(responseSelectors, 1, pg, elapsed, done)
           formOps == Append(p.ops, <<"isElementVisible", "form">>)
           poll == <<"waitForTimeout", "poll">>
       IN IF p.found THEN [ threw |-> FALSE, error |-> NoError, ops |-> p.ops ]
          ELSE IF ~pg.form.present
               THEN [ threw |-> FALSE, error |-> NoError, ops |-> formOps ]
               ELSE IF poll \in F
                    THEN [ threw |-> TRUE, error |-> PageError(poll), ops |-> Append(formOps, poll) ]
                    ELSE ResponseLoop(pg, F, timeout, p.elapsed + 500, Append(formOps, poll))

waitForSubmissionResponse(pg, F, timeout) == ResponseLoop(pg, F, timeout, 0, <<>>)

\* FormHelper.submitForm(submitSelector), timeout = 30000
submitForm(pg, F) ==
  LET before == Perform(<< <<"waitForSelector", "submit">>, <<"waitForFunction", "ready">>,
                           <<"click", "submit">> >>,
                        F \ { <<"waitForFunction", "ready">> }, <<>>)
      w == waitForSubmissionResponse(pg, F, 30000)
  IN IF before.threw
     THEN [ threw |-> TRUE, error |-> PageError(before.op), ops |-> before.ops ]
     ELSE [ threw |-> w.threw, error |-> w.error, ops |-> before.ops \o w.ops ]

\* ContactFormPage.submitForm
pageObjectSubmitForm(pg, F) ==
  LET scroll == <<"scrollIntoViewIfNeeded", "submit">>
      s == submitForm(pg, F)
  IN IF scroll \in F
     THEN [ threw |-> TRUE, error |-> PageError(scroll), ops |-> << scroll >> ]
     ELSE [ threw |-> s.threw, error |-> s.error, ops |-> << scroll >> \o s.ops ]

NoFlow == [ test |-> "none", steps |-> <<>> ]

(***************************************************************************)
(* Test cases in parallel workers, the page-object form and the command    *)
(* line scripts.                                                           *)
(***************************************************************************)
NoCases == <<>>
NoFields == [ test |-> "none" ]
NoCli == [ script |-> "none" ]

\* ---- run-jbit-tests.js ----------------------------------------------------
\* command-line words, as their pieces
CliWords ==
  { <<"happy-path">>, <<"validation">>, <<"recaptcha">>, <<"smoke">>, <<"--", "headed">>, <<"--", "debug">>,
    <<"--", "help">>, <<"-", "h">> }
Argvs == UNION { [ 1..n -> CliWords ] : n \in 0..MaxArgs }

\* arg.startsWith('--')
StartsWithDashes(arg) == arg # <<>> /\ Head(arg) = "--"

\* scenarioTests[scenario] || scenarioTests['all']
scenarioTests(scenario) ==
  CASE scenario = <<"happy-path">> -> << <<"--", "grep">>, <<"TC-001|Should submit.*successfully">> >>
    [] scenario = <<"validation">> -> << <<"--", "grep">>, <<"validation|TC-00[2-4]">> >>
    [] scenario = <<"recaptcha">> -> << <<"--", "grep">>, <<"submit|TC-001">> >>
    [] OTHER -> <<>>

\* the argument list runTests hands to spawn('npx', ...)
runTests(testArgs) == << <<"playwright">>, <<"test">>, <<"customers/jbit/tests">> >> \o testArgs

\* main(): process.argv.slice(2) = args; child is how the spawned process
\* ends: its exit code when it started, an 'error' event otherwise
main(args, child) ==
  IF <<"--", "help">> \in Range(args) \/ <<"-", "h">> \in Range(args)
  THEN [ spawned |-> <<>>, exit |-> 0 ]
  ELSE LET scenarios == SelectSeq(args, LAMBDA arg : ~StartsWithDashes(arg))
           scenario == IF scenarios = <<>> THEN <<"all">> ELSE Head(scenarios)
           \* computed by main and passed to nothing
           playwrightArgs == SelectSeq(args, StartsWithDashes)
       IN [ spawned |-> runTests(scenarioTests(scenario)),
            exit |-> IF child.started THEN child.code ELSE 1 ]

\* ---- scripts/check-status.js ---------------------------------------------
\* the results file: missing, not JSON, the JSON null, or an object whose
\* stats (when present) holds some of the counts and whose suites are absent,
\* well formed, or hold a suite without specs
StatsObjects == UNION { [ K -> 0..MaxCount ] : K \in SUBSET { "expected", "unexpected" } }
ResultFiles ==
  { f \in [ state : { "missing", "invalid", "null", "object" }, hasStats : BOOLEAN,
            stats : StatsObjects, suites : { "absent", "specs", "no specs" } ] :
      /\ f.state # "object" => ~f.hasStats /\ f.suites = "absent"
      /\ ~f.hasStats => f.stats = << >> }

\* checkTestStatus(): its return value
checkTestStatus(f) ==
  IF f.state = "missing" THEN FALSE
  ELSE IF f.state = "invalid" THEN FALSE          \* JSON.parse throws, caught
  ELSE IF f.state = "null" THEN FALSE             \* results.config throws, caught
  ELSE LET stats == IF f.hasStats THEN f.stats ELSE << >>    \* results.stats || {}
           unexpected == IF "unexpected" \in DOMAIN stats THEN stats["unexpected"] ELSE -1
       IN IF f.suites = "no specs" THEN FALSE     \* suite.specs.forEach throws, caught
          ELSE IF unexpected > 0 /\ f.suites = "absent" THEN FALSE   \* results.suites.forEach throws
          ELSE unexpected = 0                     \* stats.unexpected === 0

\* ---- ContactFormPage and FormHelper.clearForm ---------------------------
\* one alternative of a selector list: a class, possibly below an ancestor
Alt(within, class) == [ within |-> within, class |-> class ]

\* ContactFormPage this.selectors; a field's selector is named by the field
selectors ==
  [ form |-> "form", name |-> "name", email |-> "email", phone |-> "phone",
    message |-> "message", interesse |-> "interesse",
    successMessage |-> << Alt("", "elementor-message-success"), Alt("", "success-message"),
                          Alt("", "form-success"), Alt("elementor-form", "elementor-message") >>,
    errorMessage |-> << Alt("", "elementor-message-danger"), Alt("", "error-message"),
                        Alt("", "form-error"), Alt("elementor-form", "elementor-message") >>,
    fieldError |-> << Alt("", "elementor-field-error"), Alt("", "field-error"), Alt("", "error"),
                      Alt("", "elementor-field-required") >> ]
expectedMessages == [ success |-> "Bedankt voor uw bericht" ]

\* the messages the site can show after a submit, in document order
ShownElements ==
  << [ classes |-> {"elementor-message", "elementor-message-success"}, within |-> {"elementor-form"},
       text |-> <<"Bedankt voor uw bericht", ".">> ],
     [ classes |-> {"elementor-message", "elementor-message-success"}, within |-> {"elementor-form"},
       text |-> <<"Thank you">> ],
     [ classes |-> {"elementor-message", "elementor-message-danger"}, within |-> {"elementor-form"},
       text |-> <<"Er is een fout opgetreden">> ],
     [ classes |-> {"elementor-field-error"}, within |-> {"elementor-form"},
       text |-> <<"Dit veld is verplicht">> ] >>

\* the visible elements a selector list matches, in document order
Matching(list, shown) ==
  SelectSeq(ShownElements,
            LAMBDA e : /\ e \in shown
                       /\ \E i \in DOMAIN list :
                            /\ list[i].class \in e.classes
                            /\ list[i].within = "" \/ list[i].within \in e.within)

\* ContactFormPage.isSubmissionSuccessful
isSubmissionSuccessful(shown) ==
  LET found == Matching(selectors.successMessage, shown)
  IN /\ found # <<>>
     /\ \E i \in DOMAIN Head(found).text : Head(found).text[i] = expectedMessages.success

\* ContactFormPage.hasValidationErrors: FormHelper.hasValidationErrors of
\* [fieldError, errorMessage]
hasValidationErrors(shown) ==
  \E list \in { selectors.fieldError, selectors.errorMessage } : Matching(list, shown) # <<>>

\* the test-case data: a field is omitted, empty or filled
Undefined == "undefined"
TextFields == << "name", "email", "phone", "message" >>
TestCases ==
  [ name : { Undefined, "", "x" }, email : { Undefined, "", "x" }, phone : { Undefined, "x" },
    message : { Undefined, "", "x" }, interesse : { Undefined, "Webdesign" } ]
BlankValues == [ name |-> "", email |-> "", phone |-> "", message |-> "", checked |-> {} ]

\* FormHelper.fillTextField and fillTextArea: if (!value) return; fill(value)
fillTextField(values, field, value) ==
  IF value = "" \/ value = Undefined THEN values ELSE [ values EXCEPT ![field] = value ]

\* ContactFormPage.fillContactForm: a field is filled when the data defines it
RECURSIVE fillContactForm(_, _, _)
fillContactForm(values, formData, i) ==
  IF i > Len(TextFields)
  THEN IF formData.interesse # Undefined
       THEN [ values EXCEPT !.checked = @ \cup { formData.interesse } ] ELSE values
  ELSE fillContactForm(IF formData[TextFields[i]] # Undefined
                       THEN fillTextField(values, TextFields[i], formData[TextFields[i]])
                       ELSE values,
                       formData, i + 1)

\* FormHelper.clearForm(selectors): [naam, email, telefoon, bericht] of the
\* selectors it is given, without the undefined ones, are filled with '';
\* every checked box of selectors.interesse is unchecked
clearForm(sel, values) ==
  LET fieldSelectors == { sel[k] : k \in { "naam", "email", "telefoon", "bericht" } \cap DOMAIN sel }
  IN [ f \in DOMAIN values |->
         IF f = "checked" THEN (IF "interesse" \in DOMAIN sel THEN {} ELSE values[f])
         ELSE IF f \in fieldSelectors THEN "" ELSE values[f] ]

NewCli(script, args, child, f) ==
  [ script |-> script, args |-> args, child |-> child, file |-> f, done |-> FALSE,
    spawned |-> <<>>, exit |-> 0 ]

(***************************************************************************)
(* State machine: a submitted page, network events, one classification.    *)
(***************************************************************************)
NoOutcome == [ kind |-> "none", results |-> InitialResults, error |-> Null ]

Init ==
  /\ page \in Pages
  /\ faults \in FaultPlans
  /\ tracking = NoTracking
  /\ pc = "submitted"
  /\ test = "none"
  /\ opts = [ takeScreenshots |-> TRUE ]
  /\ outcome = NoOutcome
  /\ raised = NoError
  /\ log = <<>>
  /\ session = NoSession
  /\ lastCall = NoCall
  /\ cases = NoCases /\ fields = NoFields /\ cli = NoCli
  /\ flow = NoFlow

OnRequest(u, m) ==
  /\ pc = "submitted"
  /\ TrackedEvents(tracking) < MaxLog
  /\ tracking' = IF RequestCaptured(u, m)
                 THEN [ tracking EXCEPT !.requests = Append(@, [ url |-> u.text, method |-> m ]) ]
                 ELSE tracking
  /\ UNCHANGED <<page, faults, pc, test, opts, outcome, raised, log, session, lastCall, flow, cases, fields, cli>>

OnResponse(u, st) ==
  /\ pc = "submitted"
  /\ TrackedEvents(tracking) < MaxLog
  /\ tracking' = IF ResponseCaptured(u)
                 THEN [ tracking EXCEPT !.responses = Append(@, [ url |-> u.text, status |-> st ]) ]
                 ELSE tracking
  /\ UNCHANGED <<page, faults, pc, test, opts, outcome, raised, log, session, lastCall, flow, cases, fields, cli>>

\* const results = await helper.validateFormSubmission(options);
\* helper.assertSubmissionSuccess(results);
HelperRun(pg, F, o, t) ==
  LET v == validateFormSubmission(pg, F, o, t)
  IN [ outcome |-> [ kind |-> v.kind, results |-> v.results, error |-> v.error ],
       raised |-> IF v.kind = "rejected" THEN PageError(v.error)
                  ELSE assertSubmissionSuccess(v.results),
       ops |-> v.ops ]

ValidateAndAssert(takeScreenshots) ==
  /\ pc = "submitted"
  /\ flow.test = "none"
  /\ LET o == [ takeScreenshots |-> takeScreenshots ]
         h == HelperRun(page, faults, o, tracking)
     IN /\ opts' = o
        /\ outcome' = h.outcome
        /\ raised' = h.raised
        /\ log' = h.ops
  /\ test' = "helper"
  /\ pc' = "classified"
  /\ UNCHANGED <<page, faults, tracking, session, lastCall, flow, cases, fields, cli>>

InlineTests == { "smoke", "TC-001", "TC-003", "TC-SPV-001" }

InlineRun(name, pg, F) ==
  CASE name = "smoke" -> SmokeTest(pg, F)
    [] name = "TC-001" -> TC001(pg, F)
    [] name = "TC-003" -> TC003(pg, F)
    [] name = "TC-SPV-001" -> TCSPV001(pg, F)

RunInline(name) ==
  /\ pc = "submitted"
  /\ flow.test \in { "none", name }
  /\ LET t == InlineRun(name, page, faults)
     IN /\ outcome' = [ kind |-> "test", results |-> t.evidence, error |-> Null ]
        /\ raised' = t.raised
        /\ log' = t.ops
  /\ test' = name
  /\ pc' = "classified"
  /\ UNCHANGED <<page, faults, tracking, opts, session, lastCall, flow, cases, fields, cli>>

RunSmokeTest == RunInline("smoke")
RunTC001 == RunInline("TC-001")
RunTC003 == RunInline("TC-003")
RunTCSPV001 == RunInline("TC-SPV-001")

\* the classifiers on every page and fault plan
Next ==
  \/ \E ts \in BOOLEAN : ValidateAndAssert(ts)
  \/ RunSmokeTest
  \/ RunTC001
  \/ RunTC003
  \/ RunTCSPV001

Spec == Init /\ [][Next]_vars

\* the helper with network monitoring, on pages that show at most the first
\* indicator of each list and whose operations do not throw
NetPages == { pg \in Pages : pg.visible \subseteq { successSelectors[1], errorSelectors[1] } }

InitNet == Init /\ page \in NetPages /\ faults = {}

NextNet ==
  \/ \E u \in NetUrls, m \in Methods : OnRequest(u, m)
  \/ \E u \in NetUrls, st \in { 200, 500 } : OnResponse(u, st)
  \/ \E ts \in BOOLEAN : ValidateAndAssert(ts)

SpecNet == InitNet /\ [][NextNet]_vars

(***************************************************************************)
(* State machine of the mitigation component: handler calls on a session,  *)
(* page loads, the page's script, DOMContentLoaded, form.submit() and      *)
(* requests of the page.  The test code awaits every step, so a handler    *)
(* call or a navigation starts when the previous load has finished.        *)
(***************************************************************************)
\* the strategy a call of handleRecaptcha(arg) runs
Selected(arg) ==
  IF arg \in { "undefined", "unknown_strategy" } THEN strategies.INTERCEPT_NETWORK ELSE arg

\* the session after a call, with the strategy noted when it reported true
Configured(r, strategy) ==
  [ r.s EXCEPT !.applied = IF r.kind = "resolved" /\ r.value THEN @ \cup { strategy } ELSE @ ]

InitMitigation ==
  /\ session \in { NewSession(env, F) : env \in Environments, F \in CallFaults }
  /\ lastCall = NoCall
  /\ cases = NoCases /\ fields = NoFields /\ cli = NoCli
  /\ flow = NoFlow
  /\ page = [ visible |-> {}, url |-> <<"https:", "", "jbit.be", "contact-nl", "">>, form |-> EmptyForm ]
  /\ faults = {}
  /\ tracking = NoTracking
  /\ pc = "session"
  /\ test = "none"
  /\ opts = [ takeScreenshots |-> TRUE ]
  /\ outcome = NoOutcome
  /\ raised = NoError
  /\ log = <<>>

HandleRecaptcha(arg) ==
  /\ pc = "session"
  /\ session.request = NoRequest
  /\ session.doc.phase = "ready"
  /\ lastCall.n < MaxCalls
  /\ LET r == handleRecaptcha(session, arg)
     IN /\ session' = Configured(r, Selected(arg))
        /\ lastCall' = [ op |-> "handleRecaptcha", arg |-> arg, kind |-> r.kind, value |-> r.value,
                         threw |-> Dispatch(session, arg).kind = "rejected",
                         attempts |-> <<>>, n |-> lastCall.n + 1 ]
  /\ UNCHANGED <<page, faults, tracking, pc, test, opts, outcome, raised, log, flow, cases, fields, cli>>

ApplyMultipleStrategies ==
  /\ pc = "session"
  /\ session.request = NoRequest
  /\ session.doc.phase = "ready"
  /\ lastCall.n < MaxCalls
  /\ LET r == applyMultipleStrategies(session)
     IN /\ session' = Configured(r, r.attempts[Len(r.attempts)].strategy)
        /\ lastCall' = [ op |-> "applyMultipleStrategies", arg |-> "", kind |-> r.kind,
                         value |-> r.value,
                         threw |-> \E i \in DOMAIN r.attempts : r.attempts[i].threw,
                         attempts |-> r.attempts, n |-> lastCall.n + 1 ]
  /\ UNCHANGED <<page, faults, tracking, pc, test, opts, outcome, raised, log, flow, cases, fields, cli>>

Navigate(u) ==
  /\ pc = "session"
  /\ session.request = NoRequest
  /\ session.doc.phase = "ready"
  /\ session.loads < MaxLoads
  /\ session' = goto(session, u)
  /\ UNCHANGED <<page, faults, tracking, pc, test, opts, outcome, raised, log, lastCall, flow, cases, fields, cli>>

PageScript ==
  /\ pc = "session"
  /\ session.doc.phase = "scripts"
  /\ session' = [ session EXCEPT !.doc = pageScript(@) ]
  /\ UNCHANGED <<page, faults, tracking, pc, test, opts, outcome, raised, log, lastCall, flow, cases, fields, cli>>

DOMContentLoaded ==
  /\ pc = "session"
  /\ session.doc.phase = "parsed"
  /\ session' = [ session EXCEPT !.doc = domContentLoaded(@) ]
  /\ UNCHANGED <<page, faults, tracking, pc, test, opts, outcome, raised, log, lastCall, flow, cases, fields, cli>>

FormSubmit ==
  /\ pc = "session"
  /\ session.request = NoRequest
  /\ session.doc.phase = "ready"
  /\ session.doc.forms > 0
  /\ session.doc.nativeSubmits = 0
  /\ session' = [ session EXCEPT !.doc = formSubmit(@) ]
  /\ UNCHANGED <<page, faults, tracking, pc, test, opts, outcome, raised, log, lastCall, flow, cases, fields, cli>>

\* the last step of a run: one request of the loaded page
Request(u) ==
  /\ pc = "session"
  /\ session.doc.phase = "ready"
  /\ session.request = NoRequest
  /\ session' = [ session EXCEPT !.request = [ url |-> u, after |-> session.applied,
                                                outcome |-> RouteRequest(session, u) ],
                                 \* a fulfilled release script runs in the page
                                 !.doc.grecaptcha =
                                   IF RouteRequest(session, u) = ScriptResponse
                                   THEN "script_mock" ELSE @ ]
  /\ UNCHANGED <<page, faults, tracking, pc, test, opts, outcome, raised, log, lastCall, flow, cases, fields, cli>>

NextMitigation ==
  \/ \E arg \in StrategyArgs : HandleRecaptcha(arg)
  \/ ApplyMultipleStrategies
  \/ \E u \in PageUrls \ { BlankUrl } : Navigate(u)
  \/ PageScript
  \/ DOMContentLoaded
  \/ FormSubmit
  \/ \E u \in RequestUrls : Request(u)

SpecMitigation == InitMitigation /\ [][NextMitigation]_vars

(***************************************************************************)
(* State machine of the test cases: the steps of a test before the         *)
(* classification, one action per step, then the classification.  The      *)
(* page after the submit click is the one Init chose.                      *)
(***************************************************************************)
PageObjectTest == "TC-001-page-object"
FlowTests == InlineTests \cup { PageObjectTest }

InitFlow ==
  /\ flow \in [ test : FlowTests, steps : { <<>> } ]
  /\ page \in IF flow.test = PageObjectTest THEN ResponsePages ELSE NetPages
  /\ faults = {}
  /\ tracking = NoTracking
  /\ pc = "start"
  /\ test = "none"
  /\ opts = [ takeScreenshots |-> TRUE ]
  /\ outcome = NoOutcome
  /\ raised = NoError
  /\ log = <<>>
  /\ session = NoSession
  /\ lastCall = NoCall
  /\ cases = NoCases /\ fields = NoFields /\ cli = NoCli

\* const recaptchaHandler = new RecaptchaHandler(page);
\* await recaptchaHandler.handleRecaptcha();
FlowMitigate ==
  /\ pc = "start"
  /\ flow.test \in InlineTests
  /\ LET r == handleRecaptcha(session, "undefined")
     IN /\ session' = Configured(r, Selected("undefined"))
        /\ lastCall' = [ op |-> "handleRecaptcha", arg |-> "undefined", kind |-> r.kind,
                         value |-> r.value,
                         threw |-> Dispatch(session, "undefined").kind = "rejected",
                         attempts |-> <<>>, n |-> lastCall.n + 1 ]
  /\ flow' = [ flow EXCEPT !.steps = Append(@, <<"handleRecaptcha", "undefined">>) ]
  /\ pc' = "mitigated"
  /\ UNCHANGED <<page, faults, tracking, test, opts, outcome, raised, log, cases, fields, cli>>

\* await page.goto('https://jbit.be/contact-nl/'); waitForLoadState('networkidle')
\* and, in the page-object suite, contactFormPage.navigate()
FlowNavigate ==
  /\ \/ pc = "mitigated"
     \/ pc = "start" /\ flow.test = PageObjectTest
  /\ session' = [ goto(session, FormUrl) EXCEPT !.doc = domContentLoaded(pageScript(@)) ]
  /\ flow' = [ flow EXCEPT !.steps = Append(@, <<"goto", FormUrl.text>>) ]
  /\ pc' = "navigated"
  /\ UNCHANGED <<page, faults, tracking, test, opts, outcome, raised, log, lastCall, cases, fields, cli>>

FlowFill ==
  /\ pc = "navigated"
  /\ flow' = [ flow EXCEPT !.steps = Append(@, <<"fill", "form">>) ]
  /\ pc' = "filled"
  /\ UNCHANGED <<page, faults, tracking, test, opts, outcome, raised, log, session, lastCall, cases, fields, cli>>

\* await submitButton.click()
FlowClick ==
  /\ pc = "filled"
  /\ flow.test \in InlineTests
  /\ flow' = [ flow EXCEPT !.steps = Append(@, <<"click", "submit">>) ]
  /\ pc' = "submitted"
  /\ UNCHANGED <<page, faults, tracking, test, opts, outcome, raised, log, session, lastCall, cases, fields, cli>>

\* await contactFormPage.submitForm()
FlowSubmitForm ==
  /\ pc = "filled"
  /\ flow.test = PageObjectTest
  /\ LET s == pageObjectSubmitForm(page, faults)
     IN /\ flow' = [ flow EXCEPT !.steps = @ \o s.ops ]
        /\ raised' = s.error
  /\ pc' = "responded"
  /\ UNCHANGED <<page, faults, tracking, test, opts, outcome, log, session, lastCall, cases, fields, cli>>

NextFlow ==
  \/ FlowMitigate
  \/ FlowNavigate
  \/ FlowFill
  \/ FlowClick
  \/ FlowSubmitForm
  \/ RunSmokeTest
  \/ RunTC001
  \/ RunTC003
  \/ RunTCSPV001

SpecFlow == InitFlow /\ [][NextFlow]_vars

(***************************************************************************)
(* State machine of two test cases in parallel workers, each with its own  *)
(* page, RecaptchaHandler and FormValidationHelper: mitigation, network    *)
(* events of either page and the classifications, in any interleaving.     *)
(***************************************************************************)
Workers == 1..2
CasePages ==
  { pg \in NetPages : pg.url = <<"https:", "", "jbit.be", "contact-nl", "">> /\ pg.form = EmptyForm
                       /\ pg.visible \subseteq { errorSelectors[1] } }
CaseStrategies == { strategies.MOCK_RESPONSE, strategies.INTERCEPT_NETWORK }

\* new RecaptchaHandler(page), new FormValidationHelper(page) and
\* helper.setupNetworkMonitoring() on the page of one test
NewCase(pg) ==
  [ page |-> pg, emitted |-> <<>>, tracking |-> NoTracking,
    session |-> NewSession([ NODE_ENV |-> "test", TESTING |-> "true" ], {}), strategy |-> "none",
    classified |-> FALSE, outcome |-> NoOutcome, raised |-> NoError ]

\* the listeners pushing to one log shared by every helper
OnPageRequestSharedLog(cs, i, u, m) ==
  [ j \in DOMAIN cs |->
      [ cs[j] EXCEPT !.emitted = IF j = i THEN Append(@, [ kind |-> "request", url |-> u, arg |-> m ])
                                 ELSE @,
                     !.tracking = IF RequestCaptured(u, m)
                                  THEN [ @ EXCEPT !.requests = Append(@, [ url |-> u.text, method |-> m ]) ]
                                  ELSE @ ] ]

\* page i emits a request: the 'request' listener registered on that page
\* pushes to the tracking object of the call that registered it
OnPageRequest(cs, i, u, m) ==
  [ cs EXCEPT ![i].emitted = Append(@, [ kind |-> "request", url |-> u, arg |-> m ]),
              ![i].tracking = IF RequestCaptured(u, m)
                              THEN [ @ EXCEPT !.requests = Append(@, [ url |-> u.text, method |-> m ]) ]
                              ELSE @ ]

\* page i receives a response
OnPageResponse(cs, i, u, st) ==
  [ cs EXCEPT ![i].emitted = Append(@, [ kind |-> "response", url |-> u, arg |-> st ]),
              ![i].tracking = IF ResponseCaptured(u)
                              THEN [ @ EXCEPT !.responses = Append(@, [ url |-> u.text, status |-> st ]) ]
                              ELSE @ ]

\* no page, no handler session and no test flow
Idle ==
  /\ page = [ visible |-> {}, url |-> <<"https:", "", "jbit.be", "contact-nl", "">>, form |-> EmptyForm ]
  /\ faults = {}
  /\ tracking = NoTracking
  /\ pc = "idle"
  /\ test = "none"
  /\ opts = [ takeScreenshots |-> TRUE ]
  /\ outcome = NoOutcome
  /\ raised = NoError
  /\ log = <<>>
  /\ session = NoSession
  /\ lastCall = NoCall
  /\ flow = NoFlow

InitParallel ==
  /\ Idle
  /\ fields = NoFields /\ cli = NoCli
  /\ cases \in { [ i \in Workers |-> NewCase(pgs[i]) ] : pgs \in [ Workers -> CasePages ] }

\* await recaptchaHandler.handleRecaptcha(strategy) in test i
CaseMitigate(i, strategy) ==
  /\ ~cases[i].classified /\ cases[i].strategy = "none" /\ cases[i].emitted = <<>>
  /\ cases' = [ cases EXCEPT ![i].strategy = strategy,
                             ![i].session = Configured(handleRecaptcha(@, strategy), strategy) ]
  /\ UNCHANGED <<page, faults, tracking, pc, test, opts, outcome, raised, log, session, lastCall,
                 flow, fields, cli>>

CaseRequest(i, u, m) ==
  /\ ~cases[i].classified /\ Len(cases[i].emitted) < MaxLog
  /\ cases' = OnPageRequest(cases, i, u, m)
  /\ UNCHANGED <<page, faults, tracking, pc, test, opts, outcome, raised, log, session, lastCall,
                 flow, fields, cli>>

CaseResponse(i, u, st) ==
  /\ ~cases[i].classified /\ Len(cases[i].emitted) < MaxLog
  /\ cases' = OnPageResponse(cases, i, u, st)
  /\ UNCHANGED <<page, faults, tracking, pc, test, opts, outcome, raised, log, session, lastCall,
                 flow, fields, cli>>

\* validateFormSubmission and assertSubmissionSuccess in test i
CaseValidate(i) ==
  /\ ~cases[i].classified
  /\ LET h == HelperRun(cases[i].page, {}, [ takeScreenshots |-> TRUE ], cases[i].tracking)
     IN cases' = [ cases EXCEPT ![i].classified = TRUE, ![i].outcome = h.outcome,
                                ![i].raised = h.raised ]
  /\ UNCHANGED <<page, faults, tracking, pc, test, opts, outcome, raised, log, session, lastCall,
                 flow, fields, cli>>

NextParallel ==
  \/ \E i \in Workers, strategy \in CaseStrategies : CaseMitigate(i, strategy)
  \/ \E i \in Workers, u \in NetUrls, m \in Methods : CaseRequest(i, u, m)
  \/ \E i \in Workers, u \in NetUrls : CaseResponse(i, u, 200)
  \/ \E i \in Workers : CaseValidate(i)

SpecParallel == InitParallel /\ [][NextParallel]_vars

(***************************************************************************)
(* State machine of the page-object suite: TC-001 (fill, submit, verify)   *)
(* and the looped validation tests TC-003, TC-004 and TC-005 (clear, fill, *)
(* submit, verify for every test case).  The form starts as navigate()     *)
(* leaves it; a submit that shows the success message resets the fields.   *)
(***************************************************************************)
InitPageObject ==
  /\ Idle
  /\ cases = NoCases /\ cli = NoCli
  /\ fields \in [ test : { "TC-001", "TC-003" }, pc : { "ready" }, iter : { 0 },
                   data : { [ c \in {} |-> "" ] }, values : { BlankValues }, shown : { {} },
                   successful : { FALSE }, hasErrors : { FALSE } ]

\* await contactFormPage.clearForm()
ClearForm ==
  /\ fields.test = "TC-003" /\ fields.pc = "ready" /\ fields.iter < MaxIter
  /\ fields' = [ fields EXCEPT !.pc = "cleared", !.values = clearForm(selectors, @),
                               !.shown = {} ]
  /\ UNCHANGED <<page, faults, tracking, pc, test, opts, outcome, raised, log, session, lastCall,
                 flow, cases, cli>>

\* await contactFormPage.fillContactForm(testCase)
FillContactForm(testCase) ==
  /\ \/ fields.pc = "cleared"
     \/ fields.test = "TC-001" /\ fields.pc = "ready" /\ fields.iter = 0
  /\ fields' = [ fields EXCEPT !.pc = "filled", !.data = testCase,
                               !.values = fillContactForm(@, testCase, 1) ]
  /\ UNCHANGED <<page, faults, tracking, pc, test, opts, outcome, raised, log, session, lastCall,
                 flow, cases, cli>>

\* await contactFormPage.submitForm(), returning because the site showed
\* some of its messages
SubmitForm(shown) ==
  /\ fields.pc = "filled"
  /\ shown # {}
  /\ fields' = [ fields EXCEPT !.pc = "submitted", !.shown = shown,
                               !.values = IF ShownElements[1] \in shown THEN BlankValues ELSE @ ]
  /\ UNCHANGED <<page, faults, tracking, pc, test, opts, outcome, raised, log, session, lastCall,
                 flow, cases, cli>>

\* isSubmissionSuccessful() and hasValidationErrors() on the page as it is;
\* a looped test goes on when its expectations (not successful, errors
\* shown) hold
VerifySubmission ==
  /\ fields.pc = "submitted"
  /\ LET successful == isSubmissionSuccessful(fields.shown)
         hasErrors == hasValidationErrors(fields.shown)
     IN fields' = [ fields EXCEPT !.pc = IF fields.test = "TC-003" /\ ~successful /\ hasErrors
                                         THEN "ready" ELSE "done",
                                  !.iter = @ + 1,
                                  !.successful = successful, !.hasErrors = hasErrors ]
  /\ UNCHANGED <<page, faults, tracking, pc, test, opts, outcome, raised, log, session, lastCall,
                 flow, cases, cli>>

NextPageObject ==
  \/ ClearForm
  \/ \E testCase \in TestCases : FillContactForm(testCase)
  \/ \E shown \in SUBSET Range(ShownElements) : SubmitForm(shown)
  \/ VerifySubmission

SpecPageObject == InitPageObject /\ [][NextPageObject]_vars

(***************************************************************************)
(* State machine of the command-line scripts: one run of the test runner   *)
(* or of the status checker.                                               *)
(***************************************************************************)
InitScripts ==
  /\ Idle
  /\ cases = NoCases /\ fields = NoFields
  /\ cli \in { NewCli("run-jbit-tests", args, child, CHOOSE f \in ResultFiles : f.state = "missing") :
                  args \in Argvs, child \in [ started : BOOLEAN, code : { 0, 1 } ] }
           \cup { NewCli("check-status", <<>>, [ started |-> FALSE, code |-> 0 ], f) : f \in ResultFiles }

\* node run-jbit-tests.js [scenario] [options]
RunJbitTests ==
  /\ cli.script = "run-jbit-tests" /\ ~cli.done
  /\ LET m == main(cli.args, cli.child)
     IN cli' = [ cli EXCEPT !.done = TRUE, !.spawned = m.spawned, !.exit = m.exit ]
  /\ UNCHANGED <<page, faults, tracking, pc, test, opts, outcome, raised, log, session, lastCall,
                 flow, cases, fields>>

\* node scripts/check-status.js: process.exit(success ? 0 : 1)
CheckStatus ==
  /\ cli.script = "check-status" /\ ~cli.done
  /\ cli' = [ cli EXCEPT !.done = TRUE, !.exit = IF checkTestStatus(cli.file) THEN 0 ELSE 1 ]
  /\ UNCHANGED <<page, faults, tracking, pc, test, opts, outcome, raised, log, session, lastCall,
                 flow, cases, fields>>

NextScripts ==
  \/ RunJbitTests
  \/ CheckStatus

SpecScripts == InitScripts /\ [][NextScripts]_vars

TypeOK ==
  /\ page \in Pages \cup ResponsePages
  /\ faults \in FaultPlans
  /\ pc \in { "submitted", "classified", "session", "start", "mitigated", "navigated", "filled",
             "responded", "idle" }
  /\ test \in InlineTests \cup { "none", "helper" }
  /\ flow.test \in FlowTests \cup { "none" }
  /\ lastCall.n <= MaxCalls
  /\ session.loads <= MaxLoads
  /\ TrackedEvents(tracking) <= MaxLog

(***************************************************************************)
(* Properties                                                              *)
(***************************************************************************)
Classified(t) == pc = "classified" /\ test = t
HelperReturned == Classified("helper") /\ outcome.kind = "returned"

Visible(list) == { i \in DOMAIN list : list[i] \in page.visible }
ErrorVisible == Visible(errorSelectors) # {}
SuccessVisible == Visible(successSelectors) # {}
OnFormPage == Includes(page.url, "contact-nl") \/ Includes(page.url, "contact")
\* the three fields are in the DOM and hold nothing but blanks
FieldsReadBackEmpty ==
  /\ page.form.present
  /\ \A i \in DOMAIN RequiredFields : Trim(page.form[RequiredFields[i]]) = <<>>

\* C1: error dominates.  Whenever the helper's result has hasErrorMessage =
\* TRUE, success is FALSE and assertSubmissionSuccess raises the 'FORM
\* SUBMISSION FAILED' error, whatever hasSuccessMessage, fieldsCleared and
\* urlChanged are; and the smoke test fails whenever it saw an error
\* indicator, whatever the success indicators are.
C1_ErrorDominates ==
  /\ (HelperReturned /\ outcome.results.hasErrorMessage)
       => (~outcome.results.success /\ raised.name = "FORM SUBMISSION FAILED")
  /\ (Classified("smoke") /\ outcome.results.hasErrorMessage) => raised # NoError

\* C1 witness: an error indicator together with all three success indicators
C1_Witness ==
  /\ HelperReturned
  /\ outcome.results.hasErrorMessage
  /\ outcome.results.hasSuccessMessage
  /\ outcome.results.fieldsCleared
  /\ outcome.results.urlChanged
  /\ raised.name = "FORM SUBMISSION FAILED"

\* C2: when the result records no error indicator and at least one of
\* success message, fields cleared and URL redirected, validateFormSubmission
\* returns success = TRUE and assertSubmissionSuccess raises nothing.
C2_PositiveIndicatorSucceeds ==
  (Classified("helper") /\ ~outcome.results.hasErrorMessage
     /\ (outcome.results.hasSuccessMessage \/ outcome.results.fieldsCleared
         \/ outcome.results.urlChanged))
    => (outcome.kind = "returned" /\ outcome.results.success /\ raised = NoError)

\* C3: on a page with no error indicator and no success message, not
\* redirected, whose fields are not cleared or cannot be read, the helper's
\* verdict is Unclear: success = FALSE with hasErrorMessage = FALSE, and the
\* 'STATUS UNCLEAR' error is raised.  Stated for the runs in which no page
\* operation throws.
C3_NoIndicatorIsUnclear ==
  (Classified("helper") /\ faults = {} /\ ~ErrorVisible /\ ~SuccessVisible
     /\ OnFormPage /\ ~FieldsReadBackEmpty)
    => (/\ outcome.kind = "returned"
        /\ ~outcome.results.success
        /\ ~outcome.results.hasErrorMessage
        /\ raised.name = "FORM SUBMISSION STATUS UNCLEAR")

\* C4: fieldsCleared is TRUE only if name, email and message were read back
\* empty on the form page; it is never TRUE when the page has navigated away
\* or a field locator does not resolve.  Stated for the helper and the smoke
\* test, for the runs in which no page operation throws.
C4_FieldsClearedOnlyWhenReadEmpty ==
  ((Classified("helper") \/ Classified("smoke")) /\ faults = {}
     /\ outcome.results.fieldsCleared)
    => (FieldsReadBackEmpty /\ OnFormPage)

\* C5: a submission that redirected away from the form page with no error
\* indicator visible passes every classifier; reading the form fields on the
\* redirected page raises nothing.  Stated for the runs in which no page
\* operation is made to throw.
C5_RedirectIsSuccessEverywhere ==
  (pc = "classified" /\ faults = {} /\ ~OnFormPage /\ page.visible \cap ErrorPool = {})
    => raised = NoError

\* C6: validateFormSubmission never rejects; when a page operation throws it
\* returns success = FALSE with a diagnostic in errorDetails, and
\* assertSubmissionSuccess reports Unclear.
C6_ValidateNeverRejects ==
  Classified("helper") =>
    /\ outcome.kind = "returned"
    /\ (\E op \in faults : \E i \in DOMAIN log : log[i] = op)
         => (/\ ~outcome.results.success
             /\ outcome.results.errorDetails # Null
             /\ outcome.results.errorDetails[1] = "Validation error"
             /\ raised.name = "FORM SUBMISSION STATUS UNCLEAR")

\* C7: for the same page, the helper returns the same success,
\* hasErrorMessage and errorDetails whether its screenshot calls succeed or
\* throw.
ScreenshotOps == { <<"screenshot", c>> : c \in { "post", "final", "error" } }

C7_ScreenshotFailureIsHarmless ==
  Classified("helper") =>
    \A F \in FaultPlans :
      (F \ ScreenshotOps = faults \ ScreenshotOps) =>
        LET v == validateFormSubmission(page, F, opts, tracking)
        IN /\ v.kind = outcome.kind
           /\ v.results.success = outcome.results.success
           /\ v.results.hasErrorMessage = outcome.results.hasErrorMessage
           /\ v.results.errorDetails = outcome.results.errorDetails

\* C8: in every classifier a matched error indicator raises an error that
\* carries the matched selector, and a classification that found no indicator
\* at all raises a different, 'unclear' error.  Stated for pages that still
\* hold the form, for the runs in which no page operation throws.
FailureErrors ==
  { "FORM SUBMISSION FAILED",
    "Form submission failed - Error message detected",
    "Form submission failed - Server processing error detected",
    "Comprehensive data test failed - Server processing error detected" }
UnclearErrors ==
  { "FORM SUBMISSION STATUS UNCLEAR", "Form submission unclear",
    "Form submission status unclear", "Comprehensive data test unclear" }

C8_DistinguishableErrors ==
  (pc = "classified" /\ faults = {} /\ page.form.present) =>
    /\ outcome.results.hasErrorMessage
         => (/\ raised.name \in FailureErrors
             /\ raised.detail # Null
             /\ raised.detail[1] \in page.visible)
    /\ (/\ ~outcome.results.hasErrorMessage /\ ~outcome.results.hasSuccessMessage
        /\ ~outcome.results.fieldsCleared /\ ~outcome.results.urlChanged)
         => raised.name \in UnclearErrors

\* C9: the reported successDetails / errorDetails is the earliest visible
\* entry of its list, no entry after it is probed, and exchanging two entries
\* of a list never changes the verdict.
Earliest(S) == CHOOSE i \in S : \A j \in S : i <= j
Probed == { log[i][2] : i \in { j \in DOMAIN log : log[j][1] = "isVisible" } }
Swap(list, i, j) ==
  [ k \in DOMAIN list |-> IF k = i THEN list[j] ELSE IF k = j THEN list[i] ELSE list[k] ]
Swaps(list) == { Swap(list, i, j) : i, j \in 1..(MaxSel + 1) }

FirstMatchOf(list, found, details) ==
  found => /\ Visible(list) # {}
           /\ details = << list[Earliest(Visible(list))] >>
           /\ \A k \in DOMAIN list : k > Earliest(Visible(list)) => list[k] \notin Probed

C9_FirstMatchOnly ==
  HelperReturned =>
    /\ FirstMatchOf(successSelectors, outcome.results.hasSuccessMessage, outcome.results.successDetails)
    /\ FirstMatchOf(errorSelectors, outcome.results.hasErrorMessage, outcome.results.errorDetails)
    /\ \A succ \in Swaps(successSelectors), err \in Swaps(errorSelectors) :
         LET v == ValidateWith(succ, err, page, faults, opts, tracking)
         IN /\ v.kind = outcome.kind
            /\ v.results.success = outcome.results.success
            /\ v.results.hasErrorMessage = outcome.results.hasErrorMessage

\* C10: the verdict does not depend on the captured traffic.  Whatever the
\* request and response logs hold (nothing, or only 5xx responses), the helper
\* gives the outcome it gives for every other log, and so does
\* assertSubmissionSuccess.
RECURSIVE SeqsUpTo(_, _)
SeqsUpTo(S, n) ==
  IF n = 0 THEN { <<>> }
  ELSE LET shorter == SeqsUpTo(S, n - 1)
       IN shorter \cup { Append(q, x) : q \in shorter, x \in S }

RequestEntries ==
  { [ url |-> x[1].text, method |-> x[2] ] :
      x \in { y \in NetUrls \X Methods : RequestCaptured(y[1], y[2]) } }
ResponseEntries ==
  { [ url |-> u.text, status |-> st ] :
      u \in { uu \in NetUrls : ResponseCaptured(uu) }, st \in { 200, 500 } }
Trackings ==
  { t \in [ requests : SeqsUpTo(RequestEntries, MaxLog),
            responses : SeqsUpTo(ResponseEntries, MaxLog) ] :
      TrackedEvents(t) <= MaxLog }

C10_VerdictIgnoresTraffic ==
  Classified("helper") =>
    \A t \in Trackings :
      LET h == HelperRun(page, faults, opts, t)
      IN h.outcome = outcome /\ h.raised = raised

\* C10 witness: Success declared when the only captured response is a 500
C10_Witness ==
  /\ HelperReturned
  /\ outcome.results.success
  /\ raised = NoError
  /\ tracking.requests = <<>>
  /\ Len(tracking.responses) = 1
  /\ tracking.responses[1].status = 500

\* the last call on the session was the composite
CompositeReturned == lastCall.op = "applyMultipleStrategies"

\* C11: applyMultipleStrategies attempts the strategies in the fixed order
\* INTERCEPT_NETWORK, MOCK_RESPONSE, DISABLE_SCRIPTS, DIRECT_API; a strategy is
\* attempted only if every earlier one reported false; it returns true at
\* the first strategy that reports true, attempting none after it, and
\* returns false only if every attempted strategy reported false.
C11_CompositeStopsAtFirstSuccess ==
  CompositeReturned =>
    LET a == lastCall.attempts
        order == << "intercept_network", "mock_response", "disable_scripts", "direct_api" >>
    IN /\ Len(a) >= 1
       /\ Len(a) <= Len(order)
       /\ \A i \in DOMAIN a : a[i].strategy = order[i]
       /\ \A i \in DOMAIN a : i < Len(a) => ~a[i].value
       /\ lastCall.value = a[Len(a)].value
       /\ ~lastCall.value => Len(a) = Len(order)

\* the first strategy reported false and the second true
C11_Witness ==
  /\ CompositeReturned
  /\ Len(lastCall.attempts) = 2
  /\ ~lastCall.attempts[1].value
  /\ lastCall.value

\* C12: no mitigation call is fatal: handleRecaptcha(strategy), for every
\* strategy value including unknown ones (which run the network-intercept
\* strategy), and applyMultipleStrategies always resolve to a boolean and
\* never reject; when a page call of a strategy throws, that strategy's
\* result is false.
C12_MitigationNeverRejects ==
  lastCall.op # "none" =>
    /\ lastCall.kind = "resolved"
    /\ lastCall.value \in BOOLEAN
    /\ (lastCall.op = "handleRecaptcha" /\ lastCall.threw) => ~lastCall.value
    /\ \A i \in DOMAIN lastCall.attempts :
         /\ lastCall.attempts[i].kind = "resolved"
         /\ lastCall.attempts[i].threw => ~lastCall.attempts[i].value

\* an unknown strategy value whose page call threw
C12_Witness ==
  /\ lastCall.op = "handleRecaptcha"
  /\ lastCall.arg = "unknown_strategy"
  /\ lastCall.threw
  /\ lastCall.kind = "resolved"
  /\ ~lastCall.value

\* C14: the mock challenge client object is registered as an init script: on
\* every page load after mockRecaptchaResponse has been applied,
\* window.grecaptcha is defined before any script of the page runs, so no
\* page script observes it undefined.
C14_MockDefinedBeforePageScripts ==
  strategies.MOCK_RESPONSE \in session.doc.after =>
    /\ session.doc.grecaptcha # "undefined"
    /\ ~session.doc.sawUndefined

\* a page loaded after the mock was applied, whose script has run
C14_Witness ==
  /\ strategies.MOCK_RESPONSE \in session.doc.after
  /\ session.doc.phase = "parsed"
  /\ session.doc.grecaptcha = "mock"
  /\ ~session.doc.sawUndefined

\* C15: once interceptRecaptchaRequests has been registered on a page, every
\* later request to a URL matching **/recaptcha/api/siteverify* is answered
\* with the synthetic response (status 200, application/json, success = true)
\* and never reaches the network, whatever other strategies are registered on
\* the same page before or after it.
C15_VerificationAlwaysShortCircuited ==
  ( /\ strategies.INTERCEPT_NETWORK \in session.request.after
    /\ MatchGlob(GlobSiteverify, session.request.url) )
  => session.request.outcome = VerifyResponse

\* what a page does after a load of the form URL: the answer to every request,
\* the document once DOMContentLoaded has fired, and the native submits of one
\* form.submit() call
Behaviour(s) ==
  LET d == domContentLoaded(pageScript(goto(s, FormUrl).doc))
  IN [ answers |-> [ u \in RequestUrls |-> RouteRequest(s, u) ],
       grecaptcha |-> d.grecaptcha,
       testMode |-> d.testMode,
       testModeFields |-> d.testModeFields,
       nativeSubmits |-> formSubmit(s.doc).nativeSubmits - s.doc.nativeSubmits,
       widgets |-> s.doc.widgets ]

\* C16: each mitigation operation is idempotent: applying the same strategy
\* once more to a page it was just applied to leaves the page behaviour
\* unchanged; after the environment-flag injection has been applied twice
\* every form of a loaded page contains exactly one hidden test_mode field,
\* and after the DOM purge has been applied twice a call of form.submit
\* invokes the native submit exactly once.
C16_StrategiesAreIdempotent ==
  /\ ( lastCall.op = "handleRecaptcha" /\ lastCall.value /\ session.request = NoRequest
       /\ session.doc.nativeSubmits = 0 )
     => Behaviour(handleRecaptcha(session, lastCall.arg).s) = Behaviour(session)
  /\ ( /\ strategies.ENVIRONMENT_BYPASS \in session.doc.after
       /\ session.doc.phase = "ready"
       /\ session.doc.forms > 0 )
     => session.doc.testModeFields = 1
  /\ ( session.doc.wrappers > 0 /\ session.doc.nativeSubmits > 0 )
     => session.doc.nativeSubmits = 1

\* C17: whether the environment-flag injection is applied depends only on
\* NODE_ENV and TESTING: with the same environment variables
\* environmentBypass returns the same boolean and registers the same
\* injection whatever the URL of the page is.
C17_BypassDependsOnEnvironmentOnly ==
  ( lastCall.op = "handleRecaptcha" /\ lastCall.arg = strategies.ENVIRONMENT_BYPASS
    /\ ~lastCall.threw )
  => \A u \in PageUrls :
       LET other == handleRecaptcha([ session EXCEPT !.doc.url = u ], lastCall.arg)
       IN /\ other.value = lastCall.value
          /\ (Len(other.s.initScripts) > Len(session.initScripts)) = lastCall.value

\* the operations of a test case, from its first step to the classification
FlowTrace == flow.steps \o log
StepsNamed(name) == { i \in DOMAIN FlowTrace : FlowTrace[i][1] = name }

\* C13: in every test case that submits the form the steps occur in this
\* order: a mitigation strategy is registered on the page, then the page
\* navigates to the form, then the fields are filled and submit is clicked,
\* and only then is the outcome classified; no test navigates to the form
\* without mitigation having been applied first.
C13_MitigationBeforeNavigation ==
  /\ \A i \in StepsNamed("goto") :
       /\ \E j \in StepsNamed("handleRecaptcha") : j < i
       /\ session.doc.after # {}
  /\ \A i \in StepsNamed("fill") : \E j \in StepsNamed("goto") : j < i
  /\ \A i \in StepsNamed("click") : \E j \in StepsNamed("fill") : j < i
  /\ pc = "classified" => StepsNamed("click") # {}

\* operations that read evidence of the outcome
EvidenceOps == { "isVisible", "isElementVisible", "inputValue", "count", "url" }

\* C18: evidence is read only after the fixed settle delay: in every
\* submission flow no success/error visibility probe, field-value read or URL
\* read takes place between the submit click and the completion of the fixed
\* post-submit wait.
C18_EvidenceOnlyAfterSettleDelay ==
  \A i \in StepsNamed("click") :
    \A j \in DOMAIN FlowTrace :
      (i < j /\ FlowTrace[j][1] \in EvidenceOps)
      => \E k \in DOMAIN FlowTrace :
           i < k /\ k < j /\ FlowTrace[k] = <<"waitForTimeout", "settle">>

\* the allow-list of path fragments
AllowList == { "wp-admin/admin-ajax.php", "elementor", "contact" }
NetUrlOf(text) == CHOOSE u \in NetUrls : u.text = text

\* C19: every entry of the captured request log and of the captured response
\* log has a URL containing one of the allow-list fragments
\* (wp-admin/admin-ajax.php, elementor, contact), and both sides apply the
\* same filter: an event captured on one side has a URL that the other side
\* captures as well.
C19_SameAllowListOnBothSides ==
  /\ \A i \in DOMAIN tracking.requests :
       LET u == NetUrlOf(tracking.requests[i].url)
       IN u.has \cap AllowList # {} /\ ResponseCaptured(u)
  /\ \A i \in DOMAIN tracking.responses :
       LET u == NetUrlOf(tracking.responses[i].url)
       IN u.has \cap AllowList # {} /\ \A m \in Methods : RequestCaptured(u, m)

\* C20: every non-success outcome has a screenshot attached: in every
\* execution of a submission test that ends by raising a classification
\* error, a screenshot was taken after the submit click and before the error
\* reaches the test runner.  Stated for the runs in which no page operation
\* throws.
C20_ScreenshotOnEveryNonSuccess ==
  ( /\ pc = "classified"
    /\ faults = {}
    /\ raised.name \in FailureErrors \cup UnclearErrors )
  => \E i \in DOMAIN log : log[i][1] = "screenshot"

\* C22: every stand-in challenge object the handler installs as
\* window.grecaptcha, by the init script or by the fulfilled release script,
\* has ready, execute, render, getResponse and reset, and its execute and
\* getResponse give fixed non-empty tokens.
C22_StandInExposesFullApi ==
  (pc = "session" /\ session.doc.grecaptcha \in DOMAIN grecaptchaMocks) =>
    LET g == grecaptchaMocks[session.doc.grecaptcha] IN
    /\ {"ready", "execute", "render", "getResponse", "reset"} \subseteq g.methods
    /\ g.execute # "" /\ g.getResponse # ""

\* C23: when every strategy of the composite reports failure, each of the
\* five strategies the handler defines has been attempted exactly once
\* before applyMultipleStrategies returns false.
C23_CompositeCoversAllStrategies ==
  (CompositeReturned /\ lastCall.value = FALSE) =>
    \A name \in DOMAIN strategies :
      Cardinality({ i \in DOMAIN lastCall.attempts :
                      lastCall.attempts[i].strategy = strategies[name] }) = 1
\* the steps of waitForSubmissionResponse in the trace: what follows the click
ResponseSteps ==
  LET c == CHOOSE i \in DOMAIN flow.steps : flow.steps[i] = <<"click", "submit">>
  IN SubSeq(flow.steps, c + 1, Len(flow.steps))

\* the time the steps took: 500 ms for every probe that found nothing and for
\* every wait between rounds
ResponseElapsed ==
  500 * Cardinality({ i \in DOMAIN ResponseSteps :
                        \/ ResponseSteps[i] = <<"waitForTimeout", "poll">>
                        \/ /\ ResponseSteps[i][1] = "isElementVisible"
                           /\ ResponseSteps[i][2] # "form"
                           /\ ResponseSteps[i][2] \notin page.visible })

\* C27: waitForSubmissionResponse terminates: it returns normally only from
\* a round whose last probe saw a success, error or field-error indicator or
\* saw no form; otherwise it throws the 'Form submission response timeout'
\* error once the timeout (30000 ms) has elapsed, after at most 30000 / 500
\* waits, never returning normally without an observed response.
C27_ResponseWaitTerminates ==
  (pc = "responded" /\ <<"click", "submit">> \in Range(flow.steps)) =>
    LET last == ResponseSteps[Len(ResponseSteps)]
        waits == { i \in DOMAIN ResponseSteps : ResponseSteps[i] = <<"waitForTimeout", "poll">> }
    IN /\ Cardinality(waits) <= 30000 \div 500
       /\ raised = NoError =>
            /\ last[1] = "isElementVisible"
            /\ \/ last[2] \in page.visible /\ last[2] \in Range(responseSelectors)
               \/ last[2] = "form" /\ ~page.form.present
       /\ raised # NoError =>
            /\ raised = Error("Form submission response timeout", Null)
            /\ ResponseElapsed >= 30000
            /\ page.visible \cap Range(responseSelectors) = {}
            /\ page.form.present

C27_Witness ==
  /\ pc = "responded"
  /\ raised = Error("Form submission response timeout", Null)
  /\ <<"waitForTimeout", "poll">> \in Range(flow.steps)
\* the verdict a classifier's raised error stands for
VerdictOf(err) ==
  CASE err = NoError -> "Success"
    [] err.name \in { "FORM SUBMISSION FAILED",
                      "Form submission failed - Error message detected" } -> "Failure"
    [] err.name \in { "FORM SUBMISSION STATUS UNCLEAR", "Form submission unclear" } -> "Unclear"
    [] OTHER -> "none"

\* C30: on the same page state, with no page operation failing, the
\* FormValidationHelper classifier and the inline smoke-test classifier reach
\* the same verdict among Success, Failure and Unclear.
C30_HelperAndSmokeTestAgree ==
  (pc = "classified" /\ test = "smoke" /\ faults = {}) =>
    LET helper == VerdictOf(HelperRun(page, faults, [ takeScreenshots |-> TRUE ], tracking).raised)
        smoke == VerdictOf(raised)
    IN (helper # "none" /\ smoke # "none") => helper = smoke
\* C28: every command-line option beginning with '--' given to
\* run-jbit-tests.js is among the arguments of the Playwright invocation it
\* spawns, next to the arguments the scenario selects.
C28_OptionsForwardedToPlaywright ==
  (cli.script = "run-jbit-tests" /\ cli.done /\ cli.spawned # <<>>) =>
    LET scenarios == SelectSeq(cli.args, LAMBDA arg : ~StartsWithDashes(arg))
        scenario == IF scenarios = <<>> THEN <<"all">> ELSE Head(scenarios)
    IN /\ \A i \in DOMAIN cli.args :
            StartsWithDashes(cli.args[i]) => cli.args[i] \in Range(cli.spawned)
       /\ \A j \in DOMAIN scenarioTests(scenario) :
            scenarioTests(scenario)[j] \in Range(cli.spawned)

\* C29: checkTestStatus returns true (exit code 0) exactly when the results
\* file exists, parses as JSON and reports zero failed tests, an absent
\* count being read as 0; in every other case the exit code is 1.
C29_StatusReflectsFailedCount ==
  (cli.script = "check-status" /\ cli.done) =>
    LET f == cli.file
        stats == IF f.hasStats THEN f.stats ELSE << >>
        failed == IF "unexpected" \in DOMAIN stats THEN stats["unexpected"] ELSE 0
    IN /\ cli.exit \in { 0, 1 }
       /\ cli.exit = 0 <=> (f.state = "object" /\ failed = 0)
\* C24: after clearForm() the name, email, phone and message fields are
\* empty and every interest checkbox is unchecked, whatever they held.
C24_ClearFormEmptiesEveryField ==
  fields.test # "none" /\ fields.pc = "cleared" => fields.values = BlankValues

\* C25: in a looped validation test, at the moment of each submit every
\* field holds that iteration's test-case value: a field the test case
\* leaves empty or omits is empty, nothing is carried over.
C25_SubmittedValuesAreTestCaseData ==
  (fields.test = "TC-003" /\ fields.pc = "filled") =>
    \A i \in DOMAIN TextFields :
      fields.values[TextFields[i]] =
        IF fields.data[TextFields[i]] = Undefined THEN "" ELSE fields.data[TextFields[i]]

\* C26: on an unchanged page isSubmissionSuccessful() and
\* hasValidationErrors() are never both true.
C26_SuccessExcludesValidationErrors ==
  (fields.test # "none" /\ fields.iter > 0 /\ fields.pc \in { "ready", "done" }) =>
    ~(fields.successful /\ fields.hasErrors)
\* the log a helper holds after the events its own page emitted
RECURSIVE CapturedFrom(_, _)
CapturedFrom(emitted, t) ==
  IF emitted = <<>> THEN t
  ELSE LET e == Head(emitted)
       IN CapturedFrom(Tail(emitted),
            IF e.kind = "request"
            THEN IF RequestCaptured(e.url, e.arg)
                 THEN [ t EXCEPT !.requests = Append(@, [ url |-> e.url.text, method |-> e.arg ]) ]
                 ELSE t
            ELSE IF ResponseCaptured(e.url)
                 THEN [ t EXCEPT !.responses = Append(@, [ url |-> e.url.text, status |-> e.arg ]) ]
                 ELSE t)

====
